---- MODULE Spec2Model ----
(***************************************************************************)
(* A model of the mjs tree-walking evaluator (src/src/mjs/interpreter.cpp) *)
(* together with the object / global-object helpers it relies on.          *)
(*                                                                         *)
(* The interpreter is modelled at the level of its public interface: the   *)
(* host constructs an interpreter for a parsed program and then calls      *)
(* eval(statement) / eval(expression).  Each such call is one action; the  *)
(* recursive visitor is a family of recursive operators that thread the    *)
(* interpreter state (heap, scope links, current scope) exactly as the C++ *)
(* code does.  A trace of the observable steps of the evaluation (calls,   *)
(* identifier resolutions, property writes) is kept in the variable log.   *)
(*                                                                         *)
(* The with statement is left out: the parser of this repository does not  *)
(* produce it.                                                             *)
(***************************************************************************)
EXTENDS Integers, Sequences, FiniteSets, TLC

\* ------------------------------------------------------------------------
\* Bounds
\* ------------------------------------------------------------------------

\* number of eval() calls the host makes on one interpreter
MaxSteps == 3

\* depth of nested script calls before an evaluation is cut off
MaxDepth == 4

\* iterations of one while/for statement before an evaluation is cut off
MaxIter == 3

\* the finite numbers compared are the integers from -MaxNum to MaxNum
MaxNum == 2

\* ------------------------------------------------------------------------
\* Values (value.h, modelled from its use): the six language values and the
\* reference pseudo-value.  Every value is a record [t, v, n].
\* ------------------------------------------------------------------------

Undef == [t |-> "undefined", v |-> 0, n |-> ""]

Null == [t |-> "null", v |-> 0, n |-> ""]

Bool(b) == [t |-> "boolean", v |-> IF b THEN 1 ELSE 0, n |-> ""]

Num(k) == [t |-> "number", v |-> k, n |-> ""]

Str(s) == [t |-> "string", v |-> 0, n |-> s]

Obj(id) == [t |-> "object", v |-> id, n |-> ""]

\* reference{base, property_name}
Ref(base, name) == [t |-> "reference", v |-> base, n |-> name]

LanguageTypes == {"undefined", "null", "boolean", "number", "string", "object"}

\* property attributes
read_only == "read_only"

dont_enum == "dont_enum"

dont_delete == "dont_delete"

\* ------------------------------------------------------------------------
\* Syntax tree (parser.h, modelled from the visitor's accessors)
\* ------------------------------------------------------------------------

Id(n) == [k |-> "identifier", id |-> n]

Lit(v) == [k |-> "literal", v |-> v]

CallE(m, args, ext) == [k |-> "call", member |-> m, arguments |-> args, extend |-> ext]

Prefix(op, e) == [k |-> "prefix", op |-> op, e |-> e, extend |-> 0]

NewE(e, ext) == [k |-> "prefix", op |-> "new", e |-> e, extend |-> ext]

Postfix(op, e) == [k |-> "postfix", op |-> op, e |-> e]

Binary(op, l, r) == [k |-> "binary", op |-> op, lhs |-> l, rhs |-> r]

Dot(l, name) == Binary(".", l, Lit(Str(name)))

Assign(l, r) == Binary("=", l, r)

Cond(c, l, r) == [k |-> "conditional", cond |-> c, lhs |-> l, rhs |-> r]

None == [k |-> "none"]

Block(l) == [k |-> "block", l |-> l]

Decl(id, init) == [id |-> id, init |-> init]

Var(l) == [k |-> "variable", l |-> l]

Empty == [k |-> "empty"]

ExprS(e) == [k |-> "expression", e |-> e]

If(c, s, e) == [k |-> "if", cond |-> c, if_s |-> s, else_s |-> e]

While(c, s) == [k |-> "while", cond |-> c, s |-> s]

For(i, c, it, s) == [k |-> "for", init |-> i, cond |-> c, iter |-> it, s |-> s]

Continue == [k |-> "continue"]

Break == [k |-> "break"]

Return(e) == [k |-> "return", e |-> e]

Function(id, params, block) == [k |-> "function", id |-> id, params |-> params, block |-> block]

\* ------------------------------------------------------------------------
\* Hoisting scan
\* ------------------------------------------------------------------------

RECURSIVE hoisting_visitor(_)

\* the ids collected from a statement list, in source order
RECURSIVE hoisting_list(_)
hoisting_list(l) ==
    IF l = <<>> THEN <<>> ELSE hoisting_visitor(Head(l)) \o hoisting_list(Tail(l))

\* a scan that forgets the else branch of an if statement
hoisting_visitor_no_else(s) ==
    CASE s.k = "block" -> hoisting_list(s.l)
      [] s.k = "variable" -> [i \in 1..Len(s.l) |-> s.l[i].id]
      [] s.k = "if" -> hoisting_visitor(s.if_s)
      [] s.k = "while" -> hoisting_visitor(s.s)
      [] s.k = "for" ->
            (IF s.init.k # "none" THEN hoisting_visitor(s.init) ELSE <<>>) \o
            hoisting_visitor(s.s)
      [] s.k = "function" -> <<s.id>>
      [] OTHER -> <<>>

\* hoisting_visitor::operator() for each statement kind: nested function
\* bodies are not descended into
hoisting_visitor(s) ==
    CASE s.k = "block" -> hoisting_list(s.l)
      [] s.k = "variable" -> [i \in 1..Len(s.l) |-> s.l[i].id]
      [] s.k = "if" ->
            hoisting_visitor(s.if_s) \o
            (IF s.else_s.k # "none" THEN hoisting_visitor(s.else_s) ELSE <<>>)
      [] s.k = "while" -> hoisting_visitor(s.s)
      [] s.k = "for" ->
            (IF s.init.k # "none" THEN hoisting_visitor(s.init) ELSE <<>>) \o
            hoisting_visitor(s.s)
      [] s.k = "function" -> <<s.id>>
      [] OTHER -> <<>>

\* hoisting_visitor::scan
scan(bs) == hoisting_visitor(bs)

\* ------------------------------------------------------------------------
\* Objects: class_name, prototype (0 = null), own properties with
\* attributes, call and construct thunks.  The heap is a sequence of
\* objects; an object handle is its index.
\* ------------------------------------------------------------------------

NoThunk == [kind |-> "none", def |-> None, scope |-> 0, callee |-> 0]

\* a native function of the global object
NativeThunk(name) == [kind |-> "native", def |-> [k |-> "native", id |-> name], scope |-> 0, callee |-> 0]

\* the call thunk of a function definition: the closure over the definition
\* s, the defining scope link prev_scope and the function object callee
ScriptThunk(s, prev_scope, callee) == [kind |-> "script", def |-> s, scope |-> prev_scope, callee |-> callee]

\* the construct thunk installed by a function definition
ScriptConstructThunk(s, callee) == [kind |-> "script_construct", def |-> s, scope |-> 0, callee |-> callee]

\* object::make(class_name, prototype)
object_make(class_name, prototype) ==
    [class_name |-> class_name, prototype |-> prototype, props |-> [x \in {} |-> Undef],
     call |-> NoThunk, construct |-> NoThunk]

\* allocate an object on the heap; the handle is Len(objs) + 1
Alloc(objs, o) == Append(objs, o)

RECURSIVE has_property(_, _, _)
\* object::has_property: own properties, then the prototype chain
has_property(objs, id, k) ==
    \/ k \in DOMAIN objs[id].props
    \/ /\ objs[id].prototype # 0
       /\ has_property(objs, objs[id].prototype, k)

RECURSIVE get(_, _, _)
\* object::get: own properties, then the prototype chain, else undefined
get(objs, id, k) ==
    IF k \in DOMAIN objs[id].props THEN objs[id].props[k].value
    ELSE IF objs[id].prototype # 0 THEN get(objs, objs[id].prototype, k)
    ELSE Undef

\* object::can_put: a read_only own property refuses the write
can_put(objs, id, k) ==
    ~(k \in DOMAIN objs[id].props /\ read_only \in objs[id].props[k].attr)

\* object::put(name, value, attributes): writes an own property, creating it
\* with the given attributes when absent; a read_only property is left alone
put(objs, id, k, v, attr) ==
    IF ~can_put(objs, id, k) THEN objs
    ELSE LET a == IF k \in DOMAIN objs[id].props THEN objs[id].props[k].attr ELSE attr
             p == [x \in DOMAIN objs[id].props \cup {k} |->
                      IF x = k THEN [value |-> v, attr |-> a] ELSE objs[id].props[x]]
         IN [objs EXCEPT ![id].props = p]

\* object::delete_property: removes an own property unless dont_delete
delete_property_ok(objs, id, k) ==
    ~(k \in DOMAIN objs[id].props /\ dont_delete \in objs[id].props[k].attr)

delete_property(objs, id, k) ==
    IF k \in DOMAIN objs[id].props /\ delete_property_ok(objs, id, k)
    THEN [objs EXCEPT ![id].props = [x \in DOMAIN objs[id].props \ {k} |-> objs[id].props[x]]]
    ELSE objs

\* ------------------------------------------------------------------------
\* The global object
\* ------------------------------------------------------------------------

\* handles of the objects global_object's constructor creates
global_ == 1

object_prototype_ == 2

function_prototype_ == 3

ObjectCtor == 4

EvalFn == 5

NaNValue == [t |-> "number", v |-> 0, n |-> "NaN"]

InfinityValue == [t |-> "number", v |-> 0, n |-> "Infinity"]

prototype_attribute == {dont_enum, dont_delete, read_only}

\* global_object::make_raw_function: a Function object whose prototype
\* property is the built-in function prototype
make_raw_function ==
    [object_make("Function", function_prototype_) EXCEPT
        !.props = [x \in {"prototype"} |-> [value |-> Obj(function_prototype_), attr |-> {}]]]

\* global_object::put_function on the object with handle id
put_function(objs, id, thunk, named_args) ==
    LET o1 == put(objs, id, "length", Num(named_args), {read_only, dont_delete, dont_enum})
    IN [o1 EXCEPT ![id].call = thunk, ![id].construct = thunk]

\* the heap after global_object::make(): the global object, the object and
\* function prototypes, the Object constructor and NaN / Infinity
GlobalHeap ==
    LET h0 == << object_make("Global", 0),
                 object_make("ObjectPrototype", 0),
                 object_make("Function", object_prototype_),
                 make_raw_function >>
        h1 == put_function(h0, ObjectCtor, NativeThunk("Object"), 1)
        h2 == put(h1, ObjectCtor, "prototype", Obj(object_prototype_), prototype_attribute)
        h3 == put(h2, object_prototype_, "constructor", Obj(ObjectCtor), {})
        h4 == put(h3, global_, "Object", Obj(ObjectCtor), {dont_enum})
        h5 == put(h4, global_, "NaN", NaNValue, {dont_enum})
    IN put(h5, global_, "Infinity", InfinityValue, {dont_enum})

RECURSIVE HoistInto(_, _, _)
\* bind every id of the list to undefined on the object
HoistInto(objs, id, ids) ==
    IF ids = <<>> THEN objs
    ELSE HoistInto(put(objs, id, Head(ids), Undef, {}), id, Tail(ids))

\* interpreter::impl::impl: the global object with the eval built-in installed
InstalledHeap ==
    LET h0 == Alloc(GlobalHeap, make_raw_function)
        h1 == put_function(h0, EvalFn, NativeThunk("eval"), 1)
    IN put(h1, global_, "eval", Obj(EvalFn), {dont_enum})

\* interpreter::impl::impl: after eval is installed, every hoisted name of the
\* program is put on the global object with the value undefined
ConstructHeap(program) == HoistInto(InstalledHeap, global_, scan(program))

\* ------------------------------------------------------------------------
\* Interpreter state threaded through an evaluation:
\*   objs     the heap
\*   links    the scope links ever created: [activation, prev, call_site]
\*   scopes_  the current scope link (impl::scopes_)
\*   log      the observable steps of the evaluation so far
\*   depth    the number of script calls currently active
\*   stuck    the evaluation ran into MaxDepth or MaxIter
\*   observer whether on_statement_executed_ is set
\* ------------------------------------------------------------------------

\* the result of evaluating an expression (v is a value) or a statement
\* (v is a completion); err is a runtime error propagating as a C++ exception
Ok(st, v) == [st |-> st, v |-> v, err |-> FALSE]

Throw(st, msg) == [st |-> [st EXCEPT !.log = Append(@, [e |-> "throw", msg |-> msg, trace |-> <<>>])], v |-> Undef, err |-> TRUE]

\* throw eval_exception(stack_trace, msg)
ThrowAt(st, msg, trace) == [st |-> [st EXCEPT !.log = Append(@, [e |-> "throw", msg |-> msg, trace |-> trace])], v |-> Undef, err |-> TRUE]

Stuck(st) == [st |-> [st EXCEPT !.stuck = TRUE], v |-> Undef, err |-> TRUE]

Log(st, ev) == [st EXCEPT !.log = Append(@, ev)]

\* completion{type, result}
completion(type, result) == [type |-> type, result |-> result]

\* completion::operator bool
abrupt(c) == c.type # "normal"

\* scope{activation, prev}; call_site 0 is the null extend
scope(act, prev) == [activation |-> act, prev |-> prev, call_site |-> 0]

RECURSIVE lookup(_, _, _, _)

RECURSIVE BoundInChain(_, _, _, _)
\* some link of the chain starting at l has the property
BoundInChain(links, objs, l, id) ==
    \/ has_property(objs, links[l].activation, id)
    \/ /\ links[l].prev # 0
       /\ BoundInChain(links, objs, links[l].prev, id)

\* a lookup that binds an unresolved name in the innermost activation
lookup_innermost(links, objs, l, id) ==
    IF links[l].prev = 0 \/ has_property(objs, links[l].activation, id)
       \/ ~BoundInChain(links, objs, l, id)
    THEN Ref(links[l].activation, id)
    ELSE lookup(links, objs, links[l].prev, id)

\* scope::lookup: the first link whose activation has the property, or the
\* outermost link
lookup(links, objs, l, id) ==
    IF links[l].prev = 0 \/ has_property(objs, links[l].activation, id)
    THEN Ref(links[l].activation, id)
    ELSE lookup(links, objs, links[l].prev, id)

\* get_value: a non-reference is returned as is; a reference yields the
\* property of its base, and fails when the base is absent
get_value(v, st) ==
    IF v.t # "reference" THEN Ok(st, v)
    ELSE IF v.v = 0 THEN Throw(st, "not defined")
    ELSE LET r == get(st.objs, v.v, v.n)
         IN Ok(Log(st, [e |-> "get_value", base |-> v.v, id |-> v.n, result |-> r]), r)

\* put_value: fails on a non-reference; an absent base means the global
\* object; returns whether the write was accepted (in v)
put_value(v, rhs, st) ==
    IF v.t # "reference" THEN Throw(st, "put_value on a non-reference")
    ELSE LET base == IF v.v = 0 THEN global_ ELSE v.v
             ok == can_put(st.objs, base, v.n)
             st1 == [st EXCEPT !.objs = put(@, base, v.n, rhs, {})]
         IN Ok(Log(st1, [e |-> "put_value", base |-> base, id |-> v.n, value |-> rhs,
                         accepted |-> ok, scope |-> st.scopes_,
                         class |-> st.objs[base].class_name,
                         before |-> get(st.objs, base, v.n),
                         after |-> get(st1.objs, base, v.n)]), Bool(ok))

\* to_object: undefined and null give a runtime error, an object is itself
to_object(v, st) ==
    IF v.t = "object" THEN Ok(st, v)
    ELSE IF v.t \in {"undefined", "null"} THEN Throw(st, "cannot convert to object")
    ELSE Throw(st, "not implemented")

\* to_boolean
to_boolean(v) ==
    CASE v.t = "undefined" -> FALSE
      [] v.t = "null" -> FALSE
      [] v.t = "boolean" -> v.v = 1
      [] v.t = "number" -> ~(v.n = "NaN" \/ v.n = "-0" \/ (v.n = "" /\ v.v = 0))
      [] v.t = "string" -> v.n # ""
      [] OTHER -> TRUE

Digits == <<"0", "1", "2", "3", "4", "5", "6", "7", "8", "9">>

\* index_string(i), the decimal text of a small index
index_string(i) == Digits[i + 1]

\* to_string of a primitive
to_string(v) ==
    CASE v.t = "string" -> v.n
      [] v.t = "undefined" -> "undefined"
      [] v.t = "null" -> "null"
      [] v.t = "boolean" -> IF v.v = 1 THEN "true" ELSE "false"
      [] v.t = "number" -> IF v.n = "-0" THEN "0"
                           ELSE IF v.n # "" THEN v.n
                           ELSE IF v.v \in 0..9 THEN index_string(v.v) ELSE "number"
      [] OTHER -> "[object]"

\* to_number of a primitive (finite integers and NaN)
to_number(v) ==
    CASE v.t = "number" -> v
      [] v.t = "undefined" -> NaNValue
      [] v.t = "null" -> Num(0)
      [] v.t = "boolean" -> Num(v.v)
      [] v.t = "string" ->
            IF v.n = "" THEN Num(0)
            ELSE IF \E i \in 1..10 : Digits[i] = v.n
                 THEN Num((CHOOSE i \in 1..10 : Digits[i] = v.n) - 1)
                 ELSE NaNValue
      [] OTHER -> NaNValue

\* ------------------------------------------------------------------------
\* Numbers: finite integers, NaN and the infinities
\* ------------------------------------------------------------------------

NegInfinityValue == [t |-> "number", v |-> 0, n |-> "-Infinity"]

\* the double -0.0
NegZero == [t |-> "number", v |-> 0, n |-> "-0"]

\* std::isnan
isnan(a) == a.n = "NaN"

\* a finite double, -0 included
isfinite(a) == a.n \in {"", "-0"}

\* unary minus on doubles
NumNeg(a) ==
    CASE a.n = "" -> IF a.v = 0 THEN NegZero ELSE Num(0 - a.v)
      [] a.n = "-0" -> Num(0)
      [] a.n = "Infinity" -> NegInfinityValue
      [] a.n = "-Infinity" -> InfinityValue
      [] OTHER -> NaNValue

\* addition of doubles
NumAdd(a, b) ==
    CASE a.n = "NaN" \/ b.n = "NaN" -> NaNValue
      [] a.n = "-0" /\ b.n = "-0" -> NegZero
      [] a.n = "-0" -> b
      [] b.n = "-0" -> a
      [] a.n = "" /\ b.n = "" -> Num(a.v + b.v)
      [] a.n = "" -> b
      [] b.n = "" -> a
      [] a.n = b.n -> a
      [] OTHER -> NaNValue

NumSub(a, b) == NumAdd(a, NumNeg(b))

\* l == r on doubles: false with a NaN, true for 0.0 and -0.0
DoubleEq(l, r) ==
    /\ ~isnan(l)
    /\ ~isnan(r)
    /\ IF isfinite(l) /\ isfinite(r) THEN l.v = r.v ELSE l.n = r.n

\* l < r on doubles: false with a NaN
DoubleLt(l, r) ==
    /\ ~isnan(l)
    /\ ~isnan(r)
    /\ CASE l.n = "Infinity" -> FALSE
         [] r.n = "-Infinity" -> FALSE
         [] l.n = "-Infinity" -> TRUE
         [] r.n = "Infinity" -> TRUE
         [] OTHER -> l.v < r.v

\* a comparison with two outcomes only: with a NaN the answer is false
tri_compare_two_valued(l, r) == IF DoubleLt(l, r) THEN 1 ELSE 0

\* impl::tri_compare: is l < r; 0 = false, 1 = true, -1 = undefined
tri_compare(l, r) ==
    IF isnan(l) \/ isnan(r) THEN -1
    ELSE IF DoubleEq(l, r) \/ (DoubleEq(l, Num(0)) /\ DoubleEq(r, Num(0))) THEN 0
    ELSE IF l = InfinityValue THEN 0
    ELSE IF r = InfinityValue THEN 1
    ELSE IF r = NegInfinityValue THEN 0
    ELSE IF l = NegInfinityValue THEN 1
    ELSE IF DoubleLt(l, r) THEN 1 ELSE 0

\* to_primitive: a primitive is itself; for an object valueOf and then
\* toString are tried, and with the built-in methods of the object prototype
\* valueOf gives the object and toString the text "[object <class>]"
to_primitive(v, objs) ==
    IF v.t # "object" THEN v
    ELSE Str("[object " \o objs[v.v].class_name \o "]")

\* the boolean as a double
boolean_number(v) == Num(v.v)

RECURSIVE compare_equal(_, _, _)

\* an equality without conversions between the types
compare_equal_same_type(l, r, objs) ==
    IF l.t = r.t THEN IF l.t = "number" THEN DoubleEq(l, r) ELSE l = r
    ELSE (l.t = "null" /\ r.t = "undefined") \/ (l.t = "undefined" /\ r.t = "null")

\* impl::compare_equal
compare_equal(l, r, objs) ==
    IF l.t = r.t THEN
        CASE l.t \in {"undefined", "null"} -> TRUE
          [] l.t = "number" ->
                IF isnan(l) \/ isnan(r) THEN FALSE
                ELSE (DoubleEq(l, Num(0)) /\ DoubleEq(r, Num(0))) \/ DoubleEq(l, r)
          [] l.t = "string" -> l.n = r.n
          [] l.t = "boolean" -> l.v = r.v
          [] OTHER -> l.v = r.v
    ELSE IF l.t = "null" /\ r.t = "undefined" THEN TRUE
    ELSE IF l.t = "undefined" /\ r.t = "null" THEN TRUE
    ELSE IF l.t = "number" /\ r.t = "string" THEN compare_equal(l, to_number(r), objs)
    ELSE IF l.t = "string" /\ r.t = "number" THEN compare_equal(to_number(l), r, objs)
    ELSE IF l.t = "boolean" THEN compare_equal(boolean_number(l), r, objs)
    ELSE IF r.t = "boolean" THEN compare_equal(l, boolean_number(r), objs)
    ELSE IF l.t \in {"string", "number"} /\ r.t = "object"
         THEN compare_equal(l, to_primitive(r, objs), objs)
    ELSE IF r.t \in {"string", "number"} /\ l.t = "object"
         THEN compare_equal(to_primitive(l, objs), r, objs)
    ELSE FALSE

\* is_relational(op)
is_relational(op) == op \in {"<", "<=", ">", ">="}

\* the relational operators are not implemented for two strings
binary_op_not_implemented(op, l, r, objs) ==
    /\ is_relational(op)
    /\ to_primitive(l, objs).t = "string"
    /\ to_primitive(r, objs).t = "string"

\* the relational branch of impl::do_binary_op on the doubles ln and rn
relational(op, ln, rn) ==
    CASE op = "<" -> Bool(tri_compare(ln, rn) = 1)
      [] op = "<=" -> Bool(tri_compare(rn, ln) = 0)
      [] op = ">" -> Bool(tri_compare(rn, ln) = 1)
      [] OTHER -> Bool(tri_compare(ln, rn) = 0)

\* impl::do_binary_op for +, -, the relational and the equality operators
do_binary_op(op, l, r, objs) ==
    CASE op = "+" ->
            IF to_primitive(l, objs).t = "string" \/ to_primitive(r, objs).t = "string"
            THEN Str(to_string(to_primitive(l, objs)) \o to_string(to_primitive(r, objs)))
            ELSE NumAdd(to_number(l), to_number(r))
      [] is_relational(op) ->
            relational(op, to_number(to_primitive(l, objs)), to_number(to_primitive(r, objs)))
      [] op = "==" -> Bool(compare_equal(l, r, objs))
      [] op = "!=" -> Bool(~compare_equal(l, r, objs))
      [] op = "-" -> NumSub(to_number(l), to_number(r))
      [] OTHER -> NaNValue

\* without_assignment(op)
without_assignment(op) == IF op = "+=" THEN "+" ELSE "-"

AssignmentOps == {"=", "+=", "-="}

\* impl::stack_trace: the current extend, then the call_site of every link
\* of the current chain that has one
RECURSIVE chain_sites(_, _)
chain_sites(links, l) ==
    IF l = 0 THEN <<>>
    ELSE (IF links[l].call_site = 0 THEN <<>> ELSE <<links[l].call_site>>)
         \o chain_sites(links, links[l].prev)

stack_trace(st, current_extend) == <<current_extend>> \o chain_sites(st.links, st.scopes_)

\* ------------------------------------------------------------------------
\* Source texts the eval built-in can be given, with their parse
\* ------------------------------------------------------------------------

parse(text) ==
    CASE text = "q = 1" -> Block(<<ExprS(Assign(Id("q"), Lit(Num(1))))>>)
      [] text = "if (1) q = 2" -> Block(<<If(Lit(Num(1)), ExprS(Assign(Id("q"), Lit(Num(2)))), None)>>)
      [] text = "var e1 = 2" -> Block(<<Var(<<Decl("e1", Lit(Num(2)))>>)>>)
      [] OTHER -> None

\* ------------------------------------------------------------------------
\* The evaluator: impl::eval(expression), impl::eval(statement) and the
\* visitor's operator() overloads
\* ------------------------------------------------------------------------

\* a write that is never taken as refused
put_refused_never(w) == FALSE

\* if (!put_value(...)) NOT_IMPLEMENTED(...): w is what put_value returned
put_refused(w) == w.v.v = 0

RECURSIVE accept(_, _)
RECURSIVE eval_argument_list(_, _)
RECURSIVE invoke(_, _, _, _)

\* impl::eval(const expression&): accept(e, *this)
eval(e, st) == accept(e, st)

\* accept(s, *this) came back from the statement s with res; from is the
\* length of the log when the evaluation of s started
completed(s, from, res) ==
    IF res.err THEN res
    ELSE [res EXCEPT !.st = Log(res.st, [e |-> "completed", k |-> s.k, s |-> s,
                                         completion |-> res.v, from |-> from,
                                         depth |-> res.st.depth])]

\* an observer that is told of the statements the host evaluates only
on_statement_executed_host_only(s, res) ==
    IF res.err \/ ~res.st.observer \/ res.st.depth > 0 THEN res
    ELSE [res EXCEPT !.st = Log(res.st, [e |-> "statement_executed", k |-> s.k,
                                         completion |-> res.v])]

\* if (on_statement_executed_) on_statement_executed_(s, res)
on_statement_executed(s, res) ==
    IF res.err \/ ~res.st.observer THEN res
    ELSE [res EXCEPT !.st = Log(res.st, [e |-> "statement_executed", k |-> s.k,
                                         completion |-> res.v])]

\* impl::eval(const statement&): evaluate, then tell the observer
eval_statement(s, st) == on_statement_executed(s, completed(s, Len(st.log), accept(s, st)))

\* get_value(eval(e))
eval_value(e, st) ==
    LET r == eval(e, st)
    IN IF r.err THEN r ELSE get_value(r.v, r.st)

\* impl::eval_argument_list: left to right, each reduced by get_value
eval_argument_list(es, st) ==
    IF es = <<>> THEN Ok(st, <<>>)
    ELSE LET a == eval_value(Head(es), st)
         IN IF a.err THEN a
            ELSE LET rest == eval_argument_list(Tail(es),
                                                Log(a.st, [e |-> "argument", value |-> a.v,
                                                           left |-> Len(es) - 1]))
                 IN IF rest.err THEN rest ELSE Ok(rest.st, <<a.v>> \o rest.v)

\* impl::operator()(const identifier_expression&)
identifier_expression(e, st) ==
    LET r == lookup(st.links, st.objs, st.scopes_, e.id)
    IN Ok(Log(st, [e |-> "lookup", id |-> e.id, base |-> r.v, scope |-> st.scopes_,
                   bound |-> BoundInChain(st.links, st.objs, st.scopes_, e.id)]), r)

\* impl::operator()(const literal_expression&)
literal_expression(e, st) == Ok(st, e.v)

\* a this computation that does not look at the class of the base
call_this_any_base(member, objs) ==
    IF member.t = "reference" THEN Obj(member.v) ELSE Null

\* the this value a call expression hands to the thunk
call_this(member, objs) ==
    IF member.t = "reference" /\ objs[member.v].class_name # "Activation"
    THEN Obj(member.v)
    ELSE Null

\* the call or new expression (what) with extend ext is about to raise an error
failing(st, what, ext) ==
    Log(st, [e |-> "failing", what |-> what, extend |-> ext, depth |-> st.depth])

\* after the thunk c(this_, args) came back with res: the call_site of the
\* current link is reset unless an exception is propagating
call_returned(callee, scope_before, kind, res) ==
    LET s3 == Log(res.st, [e |-> "returned", callee |-> callee, scope_before |-> scope_before,
                           scope_after |-> res.st.scopes_, err |-> res.err,
                           kind |-> kind, depth |-> res.st.depth])
    IN IF res.err THEN [res EXCEPT !.st = s3]
       ELSE Ok([s3 EXCEPT !.links[s3.scopes_].call_site = 0], res.v)

\* impl::operator()(const call_expression&)
call_expression(e, st) ==
    LET member == eval(e.member, st) IN
    IF member.err THEN member ELSE
    LET mval == get_value(member.v, member.st) IN
    IF mval.err THEN mval ELSE
    LET args == eval_argument_list(e.arguments,
                                   Log(mval.st, [e |-> "arguments", extend |-> e.extend,
                                                 depth |-> mval.st.depth])) IN
    IF args.err THEN args ELSE
    LET s1 == args.st IN
    IF mval.v.t # "object"
    THEN ThrowAt(failing(s1, "call", e.extend), "is not a function", stack_trace(s1, e.extend)) ELSE
    LET c == s1.objs[mval.v.v].call IN
    IF c.kind = "none"
    THEN ThrowAt(failing(s1, "call", e.extend), "is not callable", stack_trace(s1, e.extend)) ELSE
    LET this_ == call_this(member.v, s1.objs)
        s2 == Log([s1 EXCEPT !.links[s1.scopes_].call_site = e.extend],
                  [e |-> "call", member |-> member.v, callee |-> mval.v.v,
                   base_class |-> IF member.v.t = "reference"
                                  THEN s1.objs[member.v.v].class_name ELSE "",
                   this |-> this_, args |-> args.v, scope |-> s1.scopes_,
                   extend |-> e.extend, depth |-> s1.depth])
    IN call_returned(mval.v.v, s1.scopes_, c.kind, invoke(c, this_, args.v, s2))

\* impl::handle_new_expression; ext is the extend of the operand
handle_new_expression(e, ext, st) ==
    LET o0 == IF e.k = "call" THEN eval(e.member, st) ELSE eval(e, st) IN
    IF o0.err THEN o0 ELSE
    LET args == IF e.k = "call" THEN eval_argument_list(e.arguments, o0.st)
                ELSE Ok(o0.st, <<>>) IN
    IF args.err THEN args ELSE
    LET o == get_value(o0.v, args.st) IN
    IF o.err THEN o ELSE
    LET s1 == o.st IN
    IF o.v.t # "object"
    THEN ThrowAt(failing(s1, "new", ext), "is not an object", stack_trace(s1, ext)) ELSE
    LET c == s1.objs[o.v.v].construct IN
    IF c.kind = "none"
    THEN ThrowAt(failing(s1, "new", ext), "is not constructable", stack_trace(s1, ext)) ELSE
    LET s2 == Log([s1 EXCEPT !.links[s1.scopes_].call_site = ext],
                  [e |-> "new", callee |-> o.v.v, args |-> args.v, scope |-> s1.scopes_,
                   extend |-> ext, heap |-> Len(s1.objs), depth |-> s1.depth])
    IN call_returned(o.v.v, s1.scopes_, c.kind, invoke(c, Undef, args.v, s2))

\* the value typeof yields for a language value
typeof_name(u, objs) ==
    CASE u.t = "undefined" -> "undefined"
      [] u.t = "null" -> "object"
      [] u.t = "boolean" -> "boolean"
      [] u.t = "number" -> "number"
      [] u.t = "string" -> "string"
      [] u.t = "object" -> IF objs[u.v].call.kind # "none" THEN "function" ELSE "object"
      [] OTHER -> "not implemented"

\* a ++ or -- on the reference ref has read the value read, written the
\* stepped number and yields result
step_done(st, fix, op, ref, read, result) ==
    Log(st, [e |-> "step", fix |-> fix, op |-> op, base |-> ref.v, id |-> ref.n,
             read |-> read, result |-> result])

\* a postfix expression that yields the updated number
postfix_result_updated(orig, num) == num

\* return value{orig} of the postfix expression
postfix_result(orig, num) == orig

\* impl::operator()(const prefix_expression&)
prefix_expression(e, st) ==
    IF e.op = "new" THEN handle_new_expression(e.e, e.extend, st) ELSE
    LET u == eval(e.e, st) IN
    IF u.err THEN u ELSE
    CASE e.op = "delete" ->
            IF u.v.t # "reference" THEN Throw(u.st, "not implemented")
            ELSE IF u.v.v = 0 THEN Ok(u.st, Bool(TRUE))
            ELSE LET removed == u.v.n \in DOMAIN u.st.objs[u.v.v].props
                                /\ delete_property_ok(u.st.objs, u.v.v, u.v.n)
                     s1 == [u.st EXCEPT !.objs = delete_property(@, u.v.v, u.v.n)]
                 IN Ok(Log(s1, [e |-> "delete", base |-> u.v.v, id |-> u.v.n,
                                removed |-> removed, scope |-> st.scopes_,
                                result |-> Bool(removed),
                                changed |-> s1.objs # u.st.objs]), Bool(removed))
      [] e.op = "void" ->
            LET g == get_value(u.v, u.st)
            IN IF g.err THEN g ELSE Ok(g.st, Undef)
      [] e.op = "typeof" ->
            LET s1 == Log(u.st, [e |-> "typeof", operand |-> u.v]) IN
            IF u.v.t = "reference" /\ u.v.v = 0 THEN Ok(s1, Str("undefined"))
            ELSE LET g == get_value(u.v, s1)
                 IN IF g.err THEN g
                    ELSE IF g.v.t = "reference" THEN Throw(g.st, "not implemented")
                    ELSE Ok(g.st, Str(typeof_name(g.v, g.st.objs)))
      [] e.op \in {"++", "--"} ->
            IF u.v.t # "reference" THEN Throw(u.st, "not implemented")
            ELSE LET g == get_value(u.v, u.st) IN
                 IF g.err THEN g ELSE
                 LET num == NumAdd(to_number(g.v), Num(IF e.op = "++" THEN 1 ELSE -1))
                     w == put_value(u.v, num, g.st)
                 IN IF w.err THEN w
                    ELSE IF put_refused(w) THEN Throw(w.st, "not implemented")
                    ELSE Ok(step_done(w.st, "prefix", e.op, u.v, g.v, num), num)
      [] e.op = "+" ->
            LET g == get_value(u.v, u.st)
            IN IF g.err THEN g ELSE Ok(g.st, to_number(g.v))
      [] e.op = "-" ->
            LET g == get_value(u.v, u.st)
            IN IF g.err THEN g ELSE Ok(g.st, NumNeg(to_number(g.v)))
      [] e.op = "!" ->
            LET g == get_value(u.v, u.st)
            IN IF g.err THEN g ELSE Ok(g.st, Bool(~to_boolean(g.v)))
      [] OTHER -> Throw(u.st, "not implemented")

\* impl::operator()(const postfix_expression&)
postfix_expression(e, st) ==
    LET member == eval(e.e, st) IN
    IF member.err THEN member ELSE
    IF member.v.t # "reference" THEN Throw(member.st, "not implemented") ELSE
    LET g == get_value(member.v, member.st) IN
    IF g.err THEN g ELSE
    LET orig == to_number(g.v)
        num == NumAdd(orig, Num(IF e.op = "++" THEN 1 ELSE -1))
        w == put_value(member.v, num, g.st)
    IN IF w.err THEN w
       ELSE IF put_refused(w) THEN Throw(w.st, "not implemented")
       ELSE Ok(step_done(w.st, "postfix", e.op, member.v, g.v, postfix_result(orig, num)),
               postfix_result(orig, num))

\* the steps of a logical operator, for the log: the left operand's value is
\* known, the right operand was evaluated, the operator yielded its result
logical_left(op, l, st) ==
    IF op \in {"&&", "||"} THEN Log(st, [e |-> "logical_left", op |-> op, value |-> l]) ELSE st

logical_right(r, st) == Log(st, [e |-> "logical_right", value |-> r])

logical_done(op, result, left_at, st) ==
    Log(st, [e |-> "logical", op |-> op, result |-> result, left_at |-> left_at])

\* a logical operator that always goes on to its right operand
short_circuit_never(op, l) == FALSE

\* (op == andand && !to_boolean(l)) || (op == oror && to_boolean(l))
short_circuit(op, l) == (op = "&&" /\ ~to_boolean(l)) \/ (op = "||" /\ to_boolean(l))

\* an assignment that evaluates its right-hand side before its target
assignment_operands_rhs_first(e, st) ==
    LET r == eval_value(e.rhs, st) IN
    IF r.err THEN [err |-> TRUE, res |-> r] ELSE
    LET l == eval(e.lhs, r.st) IN
    IF l.err THEN [err |-> TRUE, res |-> l] ELSE
    [err |-> FALSE, l |-> l,
     r |-> [r EXCEPT !.st = Log(l.st, [e |-> "assign_target", target |-> l.v])],
     target_at |-> Len(l.st.log) + 1, rhs_from |-> Len(st.log) + 1]

\* auto l = eval(e.lhs()); auto r = get_value(eval(e.rhs()));
assignment_operands(e, st) ==
    LET l == eval(e.lhs, st) IN
    IF l.err THEN [err |-> TRUE, res |-> l] ELSE
    LET r == eval_value(e.rhs, Log(l.st, [e |-> "assign_target", target |-> l.v])) IN
    IF r.err THEN [err |-> TRUE, res |-> r] ELSE
    [err |-> FALSE, l |-> l, r |-> r,
     target_at |-> Len(l.st.log) + 1, rhs_from |-> Len(l.st.log) + 2]

\* a compound assignment that takes the value its target had when the target
\* was evaluated
compound_lval_early(l, target_st, rhs_st) ==
    [get_value(l, rhs_st) EXCEPT !.v = IF get_value(l, target_st).err THEN Undef
                                       ELSE get_value(l, target_st).v]

\* if (e.op() != token_type::equal) { auto lval = get_value(l); ... }: the
\* target is read in the state the right-hand side left
compound_lval(l, target_st, rhs_st) == get_value(l, rhs_st)

\* impl::operator()(const binary_expression&)
binary_expression(e, st) ==
    IF e.op = "," THEN
        LET l == eval_value(e.lhs, st)
        IN IF l.err THEN l ELSE eval_value(e.rhs, l.st)
    ELSE IF e.op \in AssignmentOps THEN
        LET ops == assignment_operands(e, st) IN
        IF ops.err THEN ops.res ELSE
        LET l == ops.l
            r0 == ops.r IN
        LET lval == IF e.op # "=" THEN compound_lval(l.v, l.st, r0.st) ELSE Ok(r0.st, Undef) IN
        IF lval.err THEN lval ELSE
        LET r == IF e.op # "=" THEN do_binary_op(without_assignment(e.op), lval.v, r0.v, r0.st.objs)
                 ELSE r0.v
            w == put_value(l.v, r, lval.st)
            s1 == Log(w.st, [e |-> "assign", target |-> l.v, value |-> r,
                             ident |-> e.lhs.k = "identifier",
                             bound |-> e.lhs.k = "identifier" /\
                                       BoundInChain(st.links, st.objs, st.scopes_, e.lhs.id),
                             scope |-> st.scopes_, depth |-> st.depth, op |-> e.op,
                             lval |-> lval.v, rval |-> r0.v,
                             target_at |-> ops.target_at, rhs_from |-> ops.rhs_from])
        IN IF w.err THEN w
           ELSE IF put_refused(w) THEN Throw(w.st, "not implemented")
           ELSE Ok(s1, r)
    ELSE
        LET l == eval_value(e.lhs, st) IN
        IF l.err THEN l ELSE
        IF short_circuit(e.op, l.v)
        THEN Ok(logical_done(e.op, l.v, Len(l.st.log) + 1, logical_left(e.op, l.v, l.st)), l.v) ELSE
        LET r == eval_value(e.rhs, logical_left(e.op, l.v, l.st)) IN
        IF r.err THEN r ELSE
        IF e.op \in {"&&", "||"}
        THEN Ok(logical_done(e.op, r.v, Len(l.st.log) + 1, logical_right(r.v, r.st)), r.v) ELSE
        IF e.op \in {".", "["} THEN
            LET o == to_object(l.v, r.st)
            IN IF o.err THEN o ELSE Ok(o.st, Ref(o.v.v, to_string(r.v)))
        ELSE IF binary_op_not_implemented(e.op, l.v, r.v, r.st.objs)
             THEN Throw(r.st, "not implemented")
        ELSE Ok(r.st, do_binary_op(e.op, l.v, r.v, r.st.objs))

\* impl::operator()(const conditional_expression&)
conditional_expression(e, st) ==
    LET c == eval_value(e.cond, st)
    IN IF c.err THEN c
       ELSE IF to_boolean(c.v) THEN eval_value(e.lhs, c.st) ELSE eval_value(e.rhs, c.st)

\* ------------------------------------------------------------------------
\* Statements
\* ------------------------------------------------------------------------

RECURSIVE block_list(_, _)
\* impl::operator()(const block_statement&): the first abrupt completion wins
block_list(l, st) ==
    IF l = <<>> THEN Ok(st, completion("normal", Undef))
    ELSE LET c == eval_statement(Head(l), st)
         IN IF c.err \/ abrupt(c.v) THEN c ELSE block_list(Tail(l), c.st)

RECURSIVE variable_list(_, _)
\* impl::operator()(const variable_statement&): the value of the initializer
\* is stored as eval returns it
variable_list(l, st) ==
    IF l = <<>> THEN Ok(st, completion("normal", Undef))
    ELSE LET d == Head(l)
             act == st.links[st.scopes_].activation
             s0 == IF has_property(st.objs, act, d.id) THEN st
                   ELSE Log(st, [e |-> "assert", where |-> "variable_statement", id |-> d.id])
         IN IF d.init.k = "none" THEN variable_list(Tail(l), s0)
            ELSE LET r == eval(d.init, s0)
                 IN IF r.err THEN r
                    ELSE LET a1 == r.st.links[r.st.scopes_].activation
                             s1 == [r.st EXCEPT !.objs = put(@, a1, d.id, r.v, {})]
                         IN variable_list(Tail(l),
                                Log(s1, [e |-> "var_put", base |-> a1, id |-> d.id,
                                         value |-> r.v, scope |-> r.st.scopes_]))

\* impl::operator()(const if_statement&)
if_statement(s, st) ==
    LET c == eval_value(s.cond, st)
    IN IF c.err THEN c
       ELSE IF to_boolean(c.v) THEN eval_statement(s.if_s, c.st)
       ELSE IF s.else_s.k # "none" THEN eval_statement(s.else_s, c.st)
       ELSE Ok(c.st, completion("normal", Undef))

\* a loop that hands a break completion of its body on to its caller
body_exit_keep_break(c) ==
    IF c.type \in {"break", "return"} THEN [exit |-> TRUE, c |-> c]
    ELSE [exit |-> FALSE, c |-> c]

\* what a loop does with the completion c of its body: break ends the loop
\* normally, return ends it with c, anything else goes on
body_exit(c) ==
    CASE c.type = "break" -> [exit |-> TRUE, c |-> completion("normal", Undef)]
      [] c.type = "return" -> [exit |-> TRUE, c |-> c]
      [] OTHER -> [exit |-> FALSE, c |-> c]

\* a step of a loop statement s, for the log
loop_step(st, what, s) == Log(st, [e |-> what, s |-> s, scope |-> st.scopes_])

\* the loop statement s ends with completion c
loop_end(st, s, c) == Ok(Log(st, [e |-> "loop_end", s |-> s, scope |-> st.scopes_, c |-> c]), c)

\* the body of the loop statement s completed with c
loop_body(st, s, c) == Log(st, [e |-> "loop_body", s |-> s, scope |-> st.scopes_, c |-> c])

RECURSIVE while_loop(_, _, _)
\* impl::operator()(const while_statement&); n counts the iterations
while_loop(s, st, n) ==
    LET c0 == eval_value(s.cond, loop_step(st, "loop_cond", s)) IN
    IF c0.err THEN c0 ELSE
    IF ~to_boolean(c0.v) THEN loop_end(c0.st, s, completion("normal", Undef)) ELSE
    IF n >= MaxIter THEN Stuck(c0.st) ELSE
    LET c == eval_statement(s.s, c0.st) IN
    IF c.err THEN c ELSE
    IF body_exit(c.v).exit THEN loop_end(loop_body(c.st, s, c.v), s, body_exit(c.v).c) ELSE
    while_loop(s, loop_body(c.st, s, c.v), n + 1)

RECURSIVE for_loop(_, _, _)
\* the loop of impl::operator()(const for_statement&) after the init
for_loop(s, st, n) ==
    LET c0 == IF s.cond.k = "none" THEN Ok(loop_step(st, "loop_cond", s), Bool(TRUE))
              ELSE eval_value(s.cond, loop_step(st, "loop_cond", s)) IN
    IF c0.err THEN c0 ELSE
    IF ~to_boolean(c0.v) THEN loop_end(c0.st, s, completion("normal", Undef)) ELSE
    IF n >= MaxIter THEN Stuck(c0.st) ELSE
    LET c == eval_statement(s.s, c0.st) IN
    IF c.err THEN c ELSE
    IF body_exit(c.v).exit THEN loop_end(loop_body(c.st, s, c.v), s, body_exit(c.v).c) ELSE
    LET it == IF s.iter.k = "none" THEN Ok(loop_body(c.st, s, c.v), Undef)
              ELSE eval_value(s.iter, loop_step(loop_body(c.st, s, c.v), "loop_iter", s)) IN
    IF it.err THEN it ELSE for_loop(s, it.st, n + 1)

\* impl::operator()(const for_statement&)
for_statement(s, st) ==
    IF s.init.k = "none" THEN for_loop(s, st, 0)
    ELSE LET c == eval_statement(s.init, st) IN
         IF c.err THEN c ELSE
         LET g == get_value(c.v.result, c.st) IN
         IF g.err THEN g ELSE for_loop(s, g.st, 0)

\* impl::operator()(const return_statement&)
return_statement(s, st) ==
    IF s.e.k = "none" THEN Ok(st, completion("return", Undef))
    ELSE LET r == eval_value(s.e, st)
         IN IF r.err THEN r ELSE Ok(r.st, completion("return", r.v))

\* a function definition that binds its name in the global object
definition_target_global(st, prev_scope) == global_

\* prev_scope->activation, where the function definition binds its name
definition_target(st, prev_scope) == st.links[prev_scope].activation

\* impl::operator()(const function_definition&): the function object closes
\* over the scope link that is current at the definition
function_definition(s, st) ==
    LET prev_scope == st.scopes_
        callee == Len(st.objs) + 1
        o1 == Alloc(st.objs, make_raw_function)
        o2 == put_function(o1, callee, ScriptThunk(s, prev_scope, callee), Len(s.params))
        o3 == [o2 EXCEPT ![callee].construct = ScriptConstructThunk(s, callee)]
        act == definition_target(st, prev_scope)
        o4 == put(o3, act, s.id, Obj(callee), {})
    IN Ok(Log([st EXCEPT !.objs = o4],
              [e |-> "function", id |-> s.id, callee |-> callee, scope |-> prev_scope,
               base |-> act, heap |-> Len(st.objs),
               proto |-> get(o4, callee, "prototype")]),
          completion("normal", Undef))

\* accept(n, *this): the visitor's dispatch to the operator() overload of the
\* node's type, for expressions and for statements
accept(s, st) ==
    CASE s.k = "identifier" -> identifier_expression(s, st)
      [] s.k = "literal" -> literal_expression(s, st)
      [] s.k = "call" -> call_expression(s, st)
      [] s.k = "prefix" -> prefix_expression(s, st)
      [] s.k = "postfix" -> postfix_expression(s, st)
      [] s.k = "binary" -> binary_expression(s, st)
      [] s.k = "conditional" -> conditional_expression(s, st)
      [] s.k = "block" -> block_list(s.l, st)
      [] s.k = "variable" -> variable_list(s.l, st)
      [] s.k = "empty" -> Ok(st, completion("normal", Undef))
      [] s.k = "expression" ->
            LET r == eval_value(s.e, st)
            IN IF r.err THEN r ELSE Ok(r.st, completion("normal", r.v))
      [] s.k = "if" -> if_statement(s, st)
      [] s.k = "while" -> while_loop(s, st, 0)
      [] s.k = "for" -> for_statement(s, st)
      [] s.k = "continue" -> Ok(st, completion("continue", Undef))
      [] s.k = "break" -> Ok(st, completion("break", Undef))
      [] s.k = "return" -> return_statement(s, st)
      [] s.k = "function" -> function_definition(s, st)
      [] OTHER -> Throw(st, "not implemented")

\* ------------------------------------------------------------------------
\* Call and construct thunks
\* ------------------------------------------------------------------------

RECURSIVE PutArgs_from_one(_, _, _, _)
RECURSIVE PutArgs(_, _, _, _)

\* an arguments array whose indices start at one
PutArgs_from_one(objs, as, args, i) ==
    IF i > Len(args) THEN objs
    ELSE PutArgs_from_one(put(objs, as, index_string(i), args[i], {dont_enum}), as, args, i + 1)

\* as->put(index_string(i), args[i], dont_enum) for every argument
PutArgs(objs, as, args, i) ==
    IF i > Len(args) THEN objs
    ELSE PutArgs(put(objs, as, index_string(i - 1), args[i], {dont_enum}), as, args, i + 1)

\* the number of parameters the call thunk binds
bound_params(nargs, nparams) == IF nargs < nparams THEN nargs ELSE nparams

RECURSIVE BindParams(_, _, _, _, _)
\* scope->put(s.params()[i], args[i]) for i below n
BindParams(objs, act, params, args, n) ==
    IF n = 0 THEN objs
    ELSE put(BindParams(objs, act, params, args, n - 1), act, params[n], args[n], {})

RECURSIVE HoistLocals(_, _, _)

\* a function entry that does not bind the hoisted ids
HoistLocals_skip(objs, act, ids) == [objs |-> objs, bad |-> <<>>]

\* the hoisted ids of the body: each is asserted absent, then bound to
\* undefined; bad collects the ids whose assertion fails
HoistLocals(objs, act, ids) ==
    IF ids = <<>> THEN [objs |-> objs, bad |-> <<>>]
    ELSE LET failed == has_property(objs, act, Head(ids))
             rest == HoistLocals(put(objs, act, Head(ids), Undef, {}), act, Tail(ids))
         IN [objs |-> rest.objs,
             bad |-> (IF failed THEN <<Head(ids)>> ELSE <<>>) \o rest.bad]

\* an auto_scope that chains the new link to the caller's scope
auto_scope_dynamic(st, prev) ==
    LET act == Len(st.objs) + 1
    IN [st EXCEPT !.objs = Alloc(@, object_make("Activation", 0)),
                  !.links = Append(@, scope(act, st.scopes_)),
                  !.scopes_ = Len(st.links) + 1]

\* auto_scope::auto_scope: a fresh Activation object in a new link whose prev
\* is the given link; the new link becomes current
auto_scope(st, prev) ==
    LET act == Len(st.objs) + 1
    IN [st EXCEPT !.objs = Alloc(@, object_make("Activation", 0)),
                  !.links = Append(@, scope(act, prev)),
                  !.scopes_ = Len(st.links) + 1]

\* a scope that is restored on return only, not while an exception unwinds
auto_scope_dtor_no_unwind(st, old_scopes, unwinding) ==
    IF unwinding THEN st ELSE [st EXCEPT !.scopes_ = old_scopes]

\* auto_scope::~auto_scope: runs on return and while an exception unwinds
auto_scope_dtor(st, old_scopes, unwinding) == [st EXCEPT !.scopes_ = old_scopes]

\* the state in which the body starts; h is what hoisting the locals gave
function_entered(c, this_, args, old_scopes, as, s1, act, h) ==
    Log([s1 EXCEPT !.objs = h.objs, !.depth = @ + 1],
        [e |-> "enter", id |-> c.def.id, callee |-> c.callee, this |-> this_,
         args |-> args, act |-> act, link |-> s1.scopes_, prev |-> c.scope,
         old |-> old_scopes, arguments |-> as, bad |-> h.bad,
         params |-> c.def.params, ids |-> scan(c.def.block),
         own |-> DOMAIN h.objs[act].props,
         array |-> [k \in DOMAIN h.objs[as].props |-> h.objs[as].props[k].value]])

\* the bindings of the new activation act of the scope just entered (s1)
function_bind(c, this_, args, old_scopes, as, s1, act) ==
    LET s == c.def
        o5 == put(s1.objs, act, "this", this_, {dont_delete, dont_enum, read_only})
        o6 == put(o5, act, "arguments", Obj(as), {dont_delete})
        o7 == BindParams(o6, act, s.params, args, bound_params(Len(args), Len(s.params)))
    IN function_entered(c, this_, args, old_scopes, as, s1, act,
                        HoistLocals(o7, act, scan(s.block)))

\* the call thunk up to the body: the arguments array, the new scope, this,
\* arguments, the parameters and the hoisted locals
function_enter(c, this_, args, st) ==
    LET s == c.def
        as == Len(st.objs) + 1
        o1 == Alloc(st.objs, object_make("Object", object_prototype_))
        o2 == put(o1, as, "callee", Obj(c.callee), {dont_enum})
        o3 == put(o2, as, "length", Num(Len(args)), {dont_enum})
        o4 == PutArgs(o3, as, args, 1)
        s1 == auto_scope([st EXCEPT !.objs = o4], c.scope)
    IN function_bind(c, this_, args, st.scopes_, as, s1, s1.links[s1.scopes_].activation)

\* the call thunk once the body is done: the scope is left and the result of
\* the body's completion is returned
function_leave(c, old_scopes, entered, body) ==
    LET s4 == auto_scope_dtor([body.st EXCEPT !.depth = @ - 1], old_scopes, body.err)
        s5 == Log(s4, [e |-> "leave", id |-> c.def.id, link |-> entered.scopes_,
                       act |-> entered.links[entered.scopes_].activation,
                       how |-> IF body.err THEN "error" ELSE body.v.type,
                       result |-> IF body.err THEN Undef ELSE body.v.result])
    IN IF body.err THEN [body EXCEPT !.st = s5] ELSE Ok(s5, body.v.result)

\* return eval(s.block()).result, inside the scope
function_body(c, old_scopes, entered) ==
    function_leave(c, old_scopes, entered, eval_statement(c.def.block, entered))

\* the call thunk of a function definition
function_call(c, this_, args, st) ==
    IF st.depth >= MaxDepth THEN Stuck(st)
    ELSE function_body(c, st.scopes_, function_enter(c, this_, args, st))

\* a construct thunk that ignores what the body returns
function_construct_ignore_result(c, unused_this_, args, st) ==
    LET callee == c.callee
        p == get(st.objs, callee, "prototype")
        proto == IF p.t = "object" THEN p.v ELSE object_prototype_
        o == Len(st.objs) + 1
        s1 == [st EXCEPT !.objs = Alloc(@, object_make(c.def.id, proto))]
        r == invoke(s1.objs[callee].call, Obj(o), args, s1)
    IN IF r.err THEN r
       ELSE Ok(Log(r.st, [e |-> "construct", callee |-> callee, fresh |-> o, proto |-> proto,
                          pval |-> p, args |-> args, ret |-> r.v, result |-> Obj(o)]),
               Obj(o))

\* the construct thunk of a function definition
function_construct(c, unused_this_, args, st) ==
    LET callee == c.callee
        name == c.def.id
        p == get(st.objs, callee, "prototype")
        proto == IF p.t = "object" THEN p.v ELSE object_prototype_
        o == Len(st.objs) + 1
        s1 == [st EXCEPT !.objs = Alloc(@, object_make(name, proto))]
        r == invoke(s1.objs[callee].call, Obj(o), args, s1)
        result == IF r.v.t = "object" THEN r.v ELSE Obj(o)
    IN IF r.err THEN r
       ELSE Ok(Log(r.st, [e |-> "construct", callee |-> callee, fresh |-> o, proto |-> proto,
                          pval |-> p, args |-> args, ret |-> r.v, result |-> result]),
               result)

RECURSIVE eval_source(_, _)
\* the loop of the eval built-in over the parsed statements
eval_source(l, st) ==
    IF l = <<>> THEN Ok(st, Undef)
    ELSE LET ret == eval_statement(Head(l), st)
         IN IF ret.err THEN ret
            ELSE IF abrupt(ret.v) THEN Ok(ret.st, Undef)
            ELSE IF Len(l) = 1 THEN Ok(ret.st, ret.v.result)
            ELSE eval_source(Tail(l), ret.st)

\* the native functions of the global object
native_call(name, this_, args, st) ==
    CASE name = "Object" ->
            IF args = <<>> \/ args[1].t \in {"undefined", "null"}
            THEN Ok([st EXCEPT !.objs = Alloc(@, object_make("Object", object_prototype_))],
                    Obj(Len(st.objs) + 1))
            ELSE to_object(args[1], st)
      [] name = "eval" ->
            IF args = <<>> THEN Ok(st, Undef)
            ELSE IF args[1].t # "string" THEN Ok(st, args[1])
            ELSE LET bs == parse(args[1].n)
                 IN IF bs.k = "none" THEN Throw(st, "parse error")
                    ELSE eval_source(bs.l, st)
      [] OTHER -> Throw(st, "not implemented")

\* calling a thunk: c(this_, args)
invoke(c, this_, args, st) ==
    CASE c.kind = "script" -> function_call(c, this_, args, st)
      [] c.kind = "script_construct" -> function_construct(c, this_, args, st)
      [] c.kind = "native" -> native_call(c.def.id, this_, args, st)
      [] OTHER -> Throw(st, "no thunk")

\* ------------------------------------------------------------------------
\* Programs the interpreter is constructed for.  Each is the statement list
\* of a parsed program; the host evaluates its top-level statements.
\* ------------------------------------------------------------------------

Typeof(n) == ExprS(Prefix("typeof", Id(n)))

\* var x = 1; { var a; } if (x) var b = 2; else var d; while (0) var w;
\* for (var i = 0; 0; ) var j; function f(p) { var loc; function inner() {} }
\* typeof x; typeof d; typeof j; typeof f; typeof loc
ProgHoist ==
    << Var(<<Decl("x", Lit(Num(1)))>>),
       Block(<<Var(<<Decl("a", None)>>)>>),
       If(Id("x"), Var(<<Decl("b", Lit(Num(2)))>>), Var(<<Decl("d", None)>>)),
       While(Lit(Num(0)), Var(<<Decl("w", None)>>)),
       For(Var(<<Decl("i", Lit(Num(0)))>>), Lit(Num(0)), None, Var(<<Decl("j", None)>>)),
       Function("f", <<"p">>,
                Block(<<Var(<<Decl("loc", None)>>), Function("inner", <<>>, Block(<<>>))>>)),
       Typeof("x"), Typeof("d"), Typeof("j"), Typeof("f"), Typeof("loc") >>

\* var x = 1; var y = x; function f(a) { var l = a; return l; } f(x);
\* o = new Object; var z = o.p; y;
ProgVar ==
    << Var(<<Decl("x", Lit(Num(1)))>>),
       Var(<<Decl("y", Id("x"))>>),
       Function("f", <<"a">>, Block(<<Var(<<Decl("l", Id("a"))>>), Return(Id("l"))>>)),
       ExprS(CallE(Id("f"), <<Id("x")>>, 1)),
       ExprS(Assign(Id("o"), NewE(Id("Object"), 2))),
       Var(<<Decl("z", Dot(Id("o"), "p"))>>),
       ExprS(Id("y")) >>

\* x = 1; function f(x, y) { x = 2; y; } f(); f(5); x; function g(y) { return y; } g();
ProgParams ==
    << ExprS(Assign(Id("x"), Lit(Num(1)))),
       Function("f", <<"x", "y">>, Block(<<ExprS(Assign(Id("x"), Lit(Num(2)))), ExprS(Id("y"))>>)),
       ExprS(CallE(Id("f"), <<>>, 1)),
       ExprS(CallE(Id("f"), <<Lit(Num(5))>>, 2)),
       ExprS(Id("x")),
       Function("g", <<"y">>, Block(<<Return(Id("y"))>>)),
       ExprS(CallE(Id("g"), <<>>, 3)) >>

\* nope; typeof nope; y = nope; function r() { return nope; } r(); nope = 1; void nope;
ProgUnbound ==
    << ExprS(Id("nope")),
       Typeof("nope"),
       ExprS(Assign(Id("y"), Id("nope"))),
       Function("r", <<>>, Block(<<Return(Id("nope"))>>)),
       ExprS(CallE(Id("r"), <<>>, 1)),
       ExprS(Assign(Id("nope"), Lit(Num(1)))),
       ExprS(Prefix("void", Id("nope"))) >>

\* function f() { i = 42; } function g() { function h() { j = 7; } h(); }
\* f(); g(); i; j;
ProgImplicit ==
    << Function("f", <<>>, Block(<<ExprS(Assign(Id("i"), Lit(Num(42))))>>)),
       Function("g", <<>>,
                Block(<<Function("h", <<>>, Block(<<ExprS(Assign(Id("j"), Lit(Num(7))))>>)),
                        ExprS(CallE(Id("h"), <<>>, 1))>>)),
       ExprS(CallE(Id("f"), <<>>, 2)),
       ExprS(CallE(Id("g"), <<>>, 3)),
       ExprS(Id("i")),
       ExprS(Id("j")) >>

\* i = 1; function f() { i = 5; var i = 42; return i; } f(); i;
\* function d() { delete k; k = 3; var k; } d(); k;
ProgLocal ==
    << ExprS(Assign(Id("i"), Lit(Num(1)))),
       Function("f", <<>>,
                Block(<<ExprS(Assign(Id("i"), Lit(Num(5)))),
                        Var(<<Decl("i", Lit(Num(42)))>>),
                        Return(Id("i"))>>)),
       ExprS(CallE(Id("f"), <<>>, 1)),
       ExprS(Id("i")),
       Function("d", <<>>,
                Block(<<ExprS(Prefix("delete", Id("k"))),
                        ExprS(Assign(Id("k"), Lit(Num(3)))),
                        Var(<<Decl("k", None)>>)>>)),
       ExprS(CallE(Id("d"), <<>>, 2)),
       ExprS(Id("k")) >>

\* function outer(x) { function inner() { return x; } return inner; }
\* { a = outer(1); b = outer(2); x = 9; } a(); b();
\* function caller(x) { return a(); } caller(7);
ProgClosure ==
    << Function("outer", <<"x">>,
                Block(<<Function("inner", <<>>, Block(<<Return(Id("x"))>>)),
                        Return(Id("inner"))>>)),
       Block(<<ExprS(Assign(Id("a"), CallE(Id("outer"), <<Lit(Num(1))>>, 1))),
               ExprS(Assign(Id("b"), CallE(Id("outer"), <<Lit(Num(2))>>, 2))),
               ExprS(Assign(Id("x"), Lit(Num(9))))>>),
       ExprS(CallE(Id("a"), <<>>, 3)),
       ExprS(CallE(Id("b"), <<>>, 4)),
       Function("caller", <<"x">>, Block(<<Return(CallE(Id("a"), <<>>, 5))>>)),
       ExprS(CallE(Id("caller"), <<Lit(Num(7))>>, 6)) >>

\* { function m() { return this; } o = new Object; o.m = m; o.m(); } o.m(); m();
\* function w() { function loc() { return this; } return loc(); } w();
\* (1, m)(); o.none();
ProgThis ==
    << Block(<<Function("m", <<>>, Block(<<Return(Id("this"))>>)),
               ExprS(Assign(Id("o"), NewE(Id("Object"), 1))),
               ExprS(Assign(Dot(Id("o"), "m"), Id("m"))),
               ExprS(CallE(Dot(Id("o"), "m"), <<>>, 8))>>),
       ExprS(CallE(Dot(Id("o"), "m"), <<>>, 2)),
       ExprS(CallE(Id("m"), <<>>, 3)),
       Function("w", <<>>,
                Block(<<Function("loc", <<>>, Block(<<Return(Id("this"))>>)),
                        Return(CallE(Id("loc"), <<>>, 4))>>)),
       ExprS(CallE(Id("w"), <<>>, 5)),
       ExprS(CallE(Binary(",", Lit(Num(1)), Id("m")), <<>>, 6)),
       ExprS(CallE(Dot(Id("o"), "none"), <<>>, 7)) >>

\* { function F(a) { this.v = a; } function G() { return o2; }
\*   function H() { return 5; } o2 = new Object; }
\* F.prototype = o2; F.prototype = 1; new F(3); new G; new H(); new o2;
ProgNew ==
    << Block(<<Function("F", <<"a">>, Block(<<ExprS(Assign(Dot(Id("this"), "v"), Id("a")))>>)),
               Function("G", <<>>, Block(<<Return(Id("o2"))>>)),
               Function("H", <<>>, Block(<<Return(Lit(Num(5)))>>)),
               ExprS(Assign(Id("o2"), NewE(Id("Object"), 1)))>>),
       ExprS(Assign(Dot(Id("F"), "prototype"), Id("o2"))),
       ExprS(Assign(Dot(Id("F"), "prototype"), Lit(Num(1)))),
       ExprS(NewE(CallE(Id("F"), <<Lit(Num(3))>>, 2), 2)),
       ExprS(NewE(Id("G"), 3)),
       ExprS(NewE(CallE(Id("H"), <<>>, 4), 4)),
       ExprS(NewE(Id("o2"), 5)) >>

\* { function bad() { nofn(); } function ok() { return 1; }
\*   function brk() { while (1) { break; } continue; } function nop() { }
\*   function wrap() { ok(); brk(); nop(); bad(); i = 1; } }
\* wrap(); bad(); ok(); brk();
ProgError ==
    << Block(<<Function("bad", <<>>, Block(<<ExprS(CallE(Id("nofn"), <<>>, 1))>>)),
               Function("ok", <<>>, Block(<<Return(Lit(Num(1)))>>)),
               Function("brk", <<>>,
                        Block(<<While(Lit(Num(1)), Block(<<Break>>)), Continue>>)),
               Function("nop", <<>>, Block(<<>>)),
               Function("wrap", <<>>,
                        Block(<<ExprS(CallE(Id("ok"), <<>>, 2)),
                                ExprS(CallE(Id("brk"), <<>>, 3)),
                                ExprS(CallE(Id("nop"), <<>>, 9)),
                                ExprS(CallE(Id("bad"), <<>>, 4)),
                                ExprS(Assign(Id("i"), Lit(Num(1))))>>))>>),
       ExprS(CallE(Id("wrap"), <<>>, 5)),
       ExprS(CallE(Id("bad"), <<>>, 6)),
       ExprS(CallE(Id("ok"), <<>>, 7)),
       ExprS(CallE(Id("brk"), <<>>, 8)) >>

\* { function F() {} function G() {} }
\* F.prototype.p = 1; G.prototype.p; (new G).p; F.prototype == G.prototype
ProgProto ==
    << Block(<<Function("F", <<>>, Block(<<>>)), Function("G", <<>>, Block(<<>>))>>),
       ExprS(Assign(Dot(Dot(Id("F"), "prototype"), "p"), Lit(Num(1)))),
       ExprS(Dot(Dot(Id("G"), "prototype"), "p")),
       ExprS(Dot(NewE(Id("G"), 1), "p")),
       ExprS(Binary("==", Dot(Id("F"), "prototype"), Dot(Id("G"), "prototype"))) >>

\* 0 && (x = 1); 1 && (x = 2); "" || (y = 3); "a" || (y = 4);
\* (0 && (x = 5)) || (1 && (y = 6)); x
ProgLogic ==
    << ExprS(Binary("&&", Lit(Num(0)), Assign(Id("x"), Lit(Num(1))))),
       ExprS(Binary("&&", Lit(Num(1)), Assign(Id("x"), Lit(Num(2))))),
       ExprS(Binary("||", Lit(Str("")), Assign(Id("y"), Lit(Num(3))))),
       ExprS(Binary("||", Lit(Str("a")), Assign(Id("y"), Lit(Num(4))))),
       ExprS(Binary("||", Binary("&&", Lit(Num(0)), Assign(Id("x"), Lit(Num(5)))),
                          Binary("&&", Lit(Num(1)), Assign(Id("y"), Lit(Num(6)))))),
       ExprS(Id("x")) >>

\* { o = new Object; q = o; p = new Object; c = 1;
\*   function g() { var k; k = (delete k, 3); return k; } }
\* o.x = (o = p); q.x; o.x; g(); k; c += (c = 5)
ProgAssignOrder ==
    << Block(<<ExprS(Assign(Id("o"), NewE(Id("Object"), 1))),
               ExprS(Assign(Id("q"), Id("o"))),
               ExprS(Assign(Id("p"), NewE(Id("Object"), 2))),
               ExprS(Assign(Id("c"), Lit(Num(1)))),
               Function("g", <<>>,
                        Block(<<Var(<<Decl("k", None)>>),
                                ExprS(Assign(Id("k"), Binary(",", Prefix("delete", Id("k")),
                                                             Lit(Num(3))))),
                                Return(Id("k"))>>))>>),
       ExprS(Assign(Dot(Id("o"), "x"), Assign(Id("o"), Id("p")))),
       ExprS(Dot(Id("q"), "x")),
       ExprS(Dot(Id("o"), "x")),
       ExprS(CallE(Id("g"), <<>>, 3)),
       ExprS(Id("k")),
       ExprS(Binary("+=", Id("c"), Assign(Id("c"), Lit(Num(5))))) >>

\* { x = 2; y = 0; function r() { while (1) { return 7; x = 100; } }
\*   function fr() { for (;;) { return 8; } } }
\* while (1) { if (x) { x = x - 1; y = y + 2; continue; y = y + 1000; } else break; y = y + 1; }
\* y; r(); fr(); for (j = 0; j - 2; j = j + 1) { continue; }
\* while (1) { for (k = 0; k - 1; k = k + 1) continue; for (;;) break; break; } j; continue
ProgLoop ==
    << Block(<<ExprS(Assign(Id("x"), Lit(Num(2)))),
               ExprS(Assign(Id("y"), Lit(Num(0)))),
               Function("r", <<>>,
                        Block(<<While(Lit(Num(1)),
                                      Block(<<Return(Lit(Num(7))),
                                              ExprS(Assign(Id("x"), Lit(Num(100))))>>))>>)),
               Function("fr", <<>>,
                        Block(<<For(None, None, None, Block(<<Return(Lit(Num(8)))>>))>>))>>),
       While(Lit(Num(1)),
             Block(<<If(Id("x"),
                        Block(<<ExprS(Assign(Id("x"), Binary("-", Id("x"), Lit(Num(1))))),
                                ExprS(Assign(Id("y"), Binary("+", Id("y"), Lit(Num(2))))),
                                Continue,
                                ExprS(Assign(Id("y"), Binary("+", Id("y"), Lit(Num(1000)))))>>),
                        Break),
                     ExprS(Assign(Id("y"), Binary("+", Id("y"), Lit(Num(1)))))>>)),
       ExprS(Id("y")),
       ExprS(CallE(Id("r"), <<>>, 1)),
       ExprS(CallE(Id("fr"), <<>>, 2)),
       For(ExprS(Assign(Id("j"), Lit(Num(0)))), Binary("-", Id("j"), Lit(Num(2))),
           Assign(Id("j"), Binary("+", Id("j"), Lit(Num(1)))), Block(<<Continue>>)),
       While(Lit(Num(1)),
             Block(<<For(ExprS(Assign(Id("k"), Lit(Num(0)))), Binary("-", Id("k"), Lit(Num(1))),
                         Assign(Id("k"), Binary("+", Id("k"), Lit(Num(1)))), Continue),
                     For(None, None, None, Break),
                     Break>>)),
       ExprS(Id("j")),
       Continue >>

\* delete nope; function f() { return delete nope; } f(); nope = 1; nope
ProgDelete ==
    << ExprS(Prefix("delete", Id("nope"))),
       Function("f", <<>>, Block(<<Return(Prefix("delete", Id("nope")))>>)),
       ExprS(CallE(Id("f"), <<>>, 1)),
       ExprS(Assign(Id("nope"), Lit(Num(1)))),
       ExprS(Id("nope")) >>

\* { function f(a, b) { a = 5; return arguments[0]; }
\*   function g(a) { arguments[0] = 9; arguments[1] = 8; return a; }
\*   function n() { return arguments.length; } }
\* f(1); g(1, 2); n(7, 8, 9)
ProgArguments ==
    << Block(<<Function("f", <<"a", "b">>,
                        Block(<<ExprS(Assign(Id("a"), Lit(Num(5)))),
                                Return(Binary("[", Id("arguments"), Lit(Num(0))))>>)),
               Function("g", <<"a">>,
                        Block(<<ExprS(Assign(Binary("[", Id("arguments"), Lit(Num(0))), Lit(Num(9)))),
                                ExprS(Assign(Binary("[", Id("arguments"), Lit(Num(1))), Lit(Num(8)))),
                                Return(Id("a"))>>)),
               Function("n", <<>>, Block(<<Return(Dot(Id("arguments"), "length"))>>))>>),
       ExprS(CallE(Id("f"), <<Lit(Num(1))>>, 1)),
       ExprS(CallE(Id("g"), <<Lit(Num(1)), Lit(Num(2))>>, 2)),
       ExprS(CallE(Id("n"), <<Lit(Num(7)), Lit(Num(8)), Lit(Num(9))>>, 3)) >>

\* { function f(a) { } function t() { this = 1; } function u() { this++; } }
\* f.length = 5; f.length += 1; ++f.length; f.length--; t(); u(); f.length; f.x = 2
ProgReadOnly ==
    << Block(<<Function("f", <<"a">>, Block(<<>>)),
               Function("t", <<>>, Block(<<ExprS(Assign(Id("this"), Lit(Num(1))))>>)),
               Function("u", <<>>, Block(<<ExprS(Postfix("++", Id("this")))>>))>>),
       ExprS(Assign(Dot(Id("f"), "length"), Lit(Num(5)))),
       ExprS(Binary("+=", Dot(Id("f"), "length"), Lit(Num(1)))),
       ExprS(Prefix("++", Dot(Id("f"), "length"))),
       ExprS(Postfix("--", Dot(Id("f"), "length"))),
       ExprS(CallE(Id("t"), <<>>, 1)),
       ExprS(CallE(Id("u"), <<>>, 2)),
       ExprS(Dot(Id("f"), "length")),
       ExprS(Assign(Dot(Id("f"), "x"), Lit(Num(2)))) >>

\* { x = 2; s = "3"; } x++; ++x; x--; --x; s++
ProgStep ==
    << Block(<<ExprS(Assign(Id("x"), Lit(Num(2)))), ExprS(Assign(Id("s"), Lit(Str("3"))))>>),
       ExprS(Postfix("++", Id("x"))),
       ExprS(Prefix("++", Id("x"))),
       ExprS(Postfix("--", Id("x"))),
       ExprS(Prefix("--", Id("x"))),
       ExprS(Postfix("++", Id("s"))) >>

\* eval("q = 1"); eval("var e1 = 2"); function f() { return eval("if (1) q = 2"); }
\* f(); eval(5); nofn(z = 1)
ProgEval ==
    << ExprS(CallE(Id("eval"), <<Lit(Str("q = 1"))>>, 1)),
       ExprS(CallE(Id("eval"), <<Lit(Str("var e1 = 2"))>>, 2)),
       Function("f", <<>>,
                Block(<<Return(CallE(Id("eval"), <<Lit(Str("if (1) q = 2"))>>, 3))>>)),
       ExprS(CallE(Id("f"), <<>>, 4)),
       ExprS(CallE(Id("eval"), <<Lit(Num(5))>>, 5)),
       ExprS(CallE(Id("nofn"), <<Assign(Id("z"), Lit(Num(1)))>>, 6)) >>

\* { function d(a) { var a; } function k2() { var k; var k; }
\*   function ar() { var arguments; } function n(a) { function a() { } } }
\* d(1); k2(); ar(); n(1); d()
ProgAssert ==
    << Block(<<Function("d", <<"a">>, Block(<<Var(<<Decl("a", None)>>)>>)),
               Function("k2", <<>>, Block(<<Var(<<Decl("k", None)>>), Var(<<Decl("k", None)>>)>>)),
               Function("ar", <<>>, Block(<<Var(<<Decl("arguments", None)>>)>>)),
               Function("n", <<"a">>, Block(<<Function("a", <<>>, Block(<<>>))>>))>>),
       ExprS(CallE(Id("d"), <<Lit(Num(1))>>, 1)),
       ExprS(CallE(Id("k2"), <<>>, 2)),
       ExprS(CallE(Id("ar"), <<>>, 3)),
       ExprS(CallE(Id("n"), <<Lit(Num(1))>>, 4)),
       ExprS(CallE(Id("d"), <<>>, 5)) >>

\* var NaN, Object; typeof NaN; typeof Object; function eval() { }
ProgGlobals ==
    << Var(<<Decl("NaN", None), Decl("Object", None)>>),
       Typeof("NaN"),
       Typeof("Object"),
       Function("eval", <<>>, Block(<<>>)) >>

\* { function Activation() { } function m() { return this; }
\*   o = new Activation; o.m = m; } o.m()
ProgTag ==
    << Block(<<Function("Activation", <<>>, Block(<<>>)),
               Function("m", <<>>, Block(<<Return(Id("this"))>>)),
               ExprS(Assign(Id("o"), NewE(Id("Activation"), 1))),
               ExprS(Assign(Dot(Id("o"), "m"), Id("m")))>>),
       ExprS(CallE(Dot(Id("o"), "m"), <<>>, 2)) >>

Programs ==
    << ProgHoist, ProgVar, ProgParams, ProgUnbound, ProgImplicit, ProgLocal,
       ProgClosure, ProgThis, ProgNew, ProgError, ProgProto, ProgLogic,
       ProgAssignOrder, ProgLoop, ProgDelete,
       ProgArguments, ProgReadOnly, ProgStep,
       ProgEval, ProgAssert, ProgGlobals, ProgTag >>

\* ------------------------------------------------------------------------
\* The interpreter as the host sees it
\* ------------------------------------------------------------------------

VARIABLES
    program,   \* index of the program the interpreter was constructed for
    observer,  \* whether on_statement_executed_ was given
    objs,      \* the heap
    links,     \* the scope links
    scopes_,   \* impl::scopes_
    log,       \* the steps of the evaluations so far
    last,      \* what the most recent host call was and what it returned
    steps,     \* number of host calls so far
    alive      \* the interpreter has not been destroyed

vars == <<program, observer, objs, links, scopes_, log, last, steps, alive>>

\* the statement list of the program
Stmts == Programs[program]

\* interpreter::interpreter / impl::impl
Init ==
    /\ program \in 1..Len(Programs)
    /\ observer \in BOOLEAN
    /\ objs = ConstructHeap(Block(Programs[program]))
    /\ links = <<scope(global_, 0)>>
    /\ scopes_ = 1
    /\ log = <<>>
    /\ last = [op |-> "construct", i |-> 0, err |-> FALSE, v |-> Undef]
    /\ steps = 0
    /\ alive = TRUE

\* the state an eval() call starts from
Start(op, i) ==
    [objs |-> objs, links |-> links, scopes_ |-> scopes_,
     log |-> Append(log, [e |-> "host", op |-> op, i |-> i]),
     depth |-> 0, stuck |-> FALSE, observer |-> observer]

\* the host's view after an eval() call returned or threw
Finish(r, op, i) ==
    /\ ~r.st.stuck
    /\ objs' = r.st.objs
    /\ links' = r.st.links
    /\ scopes_' = r.st.scopes_
    /\ log' = r.st.log
    /\ last' = [op |-> op, i |-> i, err |-> r.err, v |-> r.v]
    /\ steps' = steps + 1
    /\ UNCHANGED <<program, observer, alive>>

\* interpreter::eval(const statement&) on a top-level statement
EvalStatement ==
    /\ alive
    /\ steps < MaxSteps
    /\ \E i \in 1..Len(Stmts) : Finish(eval_statement(Stmts[i], Start("statement", i)), "statement", i)

\* interpreter::eval(const expression&) on the expression of a top-level
\* expression statement
EvalExpression ==
    /\ alive
    /\ steps < MaxSteps
    /\ \E i \in 1..Len(Stmts) :
          /\ Stmts[i].k = "expression"
          /\ Finish(eval(Stmts[i].e, Start("expression", i)), "expression", i)

\* interpreter::~interpreter / impl::~impl: the assertion on the scope chain
Destroy ==
    /\ alive
    /\ alive' = FALSE
    /\ last' = [op |-> "destroy", i |-> 0,
                err |-> ~(scopes_ # 0 /\ links[scopes_].prev = 0), v |-> Undef]
    /\ UNCHANGED <<program, observer, objs, links, scopes_, log, steps>>

Next == EvalStatement \/ EvalExpression \/ Destroy

Spec == Init /\ [][Next]_vars

\* ------------------------------------------------------------------------
\* The comparison operators on their own
\* ------------------------------------------------------------------------

\* the operators of do_binary_op that compare
CompareOps == {"==", "!=", "<", "<=", ">", ">="}

\* the finite doubles used as operands
Finite == {Num(k) : k \in (0 - MaxNum)..MaxNum} \cup {NegZero}

\* the operands: every type of value, the special doubles, numeric and other
\* strings, and two objects of the heap
Operands ==
    {Undef, Null, Bool(TRUE), Bool(FALSE), NaNValue, InfinityValue, NegInfinityValue}
        \cup Finite
        \cup {Str(""), Str("0"), Str("1"), Str("a"), Str("[object Global]")}
        \cup {Obj(global_), Obj(ObjectCtor)}

\* a freshly constructed interpreter
InitOps == Init /\ program = 1 /\ ~observer

\* do_binary_op(op, l, r) as the binary expression calls it on two values,
\* once per freshly constructed interpreter
ApplyBinary ==
    /\ steps = 0
    /\ steps' = 1
    /\ \E op \in CompareOps : \E l \in Operands : \E r \in Operands :
           last' = [op |-> op, i |-> 0, l |-> l, r |-> r,
                    err |-> binary_op_not_implemented(op, l, r, objs),
                    v |-> IF binary_op_not_implemented(op, l, r, objs) THEN Undef
                          ELSE do_binary_op(op, l, r, objs)]
    /\ UNCHANGED <<program, observer, objs, links, scopes_, log, alive>>

NextOps == ApplyBinary

SpecOps == InitOps /\ [][NextOps]_vars

\* ------------------------------------------------------------------------
\* Properties
\* ------------------------------------------------------------------------

\* the log positions holding an event of the given kind
At(kind) == {i \in DOMAIN log : log[i].e = kind}

\* the event at position i is a write to, or a removal of, the own property
\* id of object o
Touches(i, o, id) ==
    /\ log[i].e \in {"put_value", "var_put", "function", "delete"}
    /\ log[i].base = o
    /\ log[i].id = id

\* C1: after a call of a script-defined function has finished (normally, by
\* return, or by a runtime error leaving the body) the current scope link is
\* the link that was current before the call; between host evaluations the
\* current link is the single link of the global object, and the assertion
\* of the destructor holds.
C1_ScopeRestored ==
    /\ \A i \in At("returned") :
          log[i].kind \in {"script", "script_construct"}
             => log[i].scope_after = log[i].scope_before
    /\ links[scopes_].prev = 0
    /\ links[scopes_].activation = global_
    /\ (last.op = "destroy" => ~last.err)

\* a nested call was left by a runtime error, others by return and by normal
\* completion, and the interpreter was then destroyed
C1_Witness ==
    /\ \E i \in At("returned") : log[i].err /\ log[i].depth >= 1 /\ log[i].kind = "script"
    /\ \E i \in At("leave") : log[i].how = "error"
    /\ \E i \in At("leave") : log[i].how = "return"
    /\ \E i \in At("leave") : log[i].how = "normal"
    /\ last.op = "destroy"

\* C2: no own property of any object holds a reference pseudo-value.
C2_NoReferenceStored ==
    \A o \in DOMAIN objs : \A k \in DOMAIN objs[o].props :
        objs[o].props[k].value.t \in LanguageTypes

\* C3: on entry to a call with fewer arguments than declared parameters,
\* every parameter without an argument is bound in the new activation.
C3_MissingParamsBound ==
    \A i \in At("enter") :
        \A k \in (Len(log[i].args) + 1)..Len(log[i].params) :
            log[i].params[k] \in log[i].own

RECURSIVE DeclaredNames(_)
\* the names a statement declares at the level of the enclosing program:
\* var declarators and function names, through blocks, if/else branches, loop
\* bodies and a for-init, not through function bodies
DeclaredNames(s) ==
    CASE s.k = "variable" -> {s.l[i].id : i \in 1..Len(s.l)}
      [] s.k = "function" -> {s.id}
      [] s.k = "block" -> UNION {DeclaredNames(s.l[i]) : i \in 1..Len(s.l)}
      [] s.k = "if" -> DeclaredNames(s.if_s) \cup DeclaredNames(s.else_s)
      [] s.k = "while" -> DeclaredNames(s.s)
      [] s.k = "for" -> DeclaredNames(s.init) \cup DeclaredNames(s.s)
      [] OTHER -> {}

\* the last host call evaluated the top-level statement typeof n
EvaluatedTypeof(n) ==
    /\ last.op = "statement"
    /\ Stmts[last.i] = Typeof(n)

\* C4: after construction and before any evaluation every name declared at
\* top level is a property of the global object, and typeof of such a name,
\* evaluated first, yields "undefined" without an error.
C4_HoistedAtConstruction ==
    \A n \in DeclaredNames(Block(Stmts)) :
        /\ steps = 0 => n \in DOMAIN objs[global_].props
        /\ (steps = 1 /\ EvaluatedTypeof(n))
              => ~last.err /\ last.v.result = Str("undefined")

\* typeof of a name declared in an else branch was the first evaluation
C4_Witness ==
    /\ steps = 1
    /\ EvaluatedTypeof("d")
    /\ "d" \in DeclaredNames(Block(Stmts))
    /\ last.v.result = Str("undefined")

\* C5: get_value is never applied successfully to the reference of an
\* identifier that no link of the scope chain binds (outside typeof).
C5_UnboundReadFails ==
    \A i \in DOMAIN log :
        (i > 1 /\ log[i].e = "get_value")
           => ~(log[i - 1].e = "lookup" /\ ~log[i - 1].bound /\ log[i - 1].id = log[i].id)

\* the assignment at position i is to an unbound identifier, made inside a call
ImplicitAssign(i) ==
    /\ log[i].e = "assign"
    /\ log[i].ident
    /\ ~log[i].bound
    /\ log[i].depth >= 1

\* position k is a read of identifier id by top-level code
TopLevelRead(k, id) ==
    /\ k > 1
    /\ log[k].e = "get_value"
    /\ log[k].id = id
    /\ log[k - 1].e = "lookup"
    /\ log[k - 1].id = id
    /\ log[k - 1].scope = 1

\* C6: an assignment to an unbound identifier inside a function body writes
\* an own property of the global object, and top-level code reads the value
\* by that name afterwards (until the property is written or removed again).
C6_ImplicitGlobal ==
    \A i \in DOMAIN log : ImplicitAssign(i) =>
        /\ log[i].target.v = global_
        /\ log[i - 1].e = "put_value" /\ log[i - 1].base = global_ /\ log[i - 1].accepted
        /\ \A k \in DOMAIN log :
              (k > i /\ TopLevelRead(k, log[i].target.n)
                 /\ \A m \in (i + 1)..(k - 1) : ~Touches(m, global_, log[i].target.n))
                 => log[k].result = log[i].value

\* an assignment two calls deep created a global that top-level code read
\* after the calls had returned
C6_Witness ==
    \E i \in DOMAIN log : \E k \in DOMAIN log :
        /\ ImplicitAssign(i)
        /\ log[i].depth = 2
        /\ k > i
        /\ TopLevelRead(k, log[i].target.n)
        /\ log[k].result = log[i].value
        /\ \E j \in At("returned") : i < j /\ j < k /\ log[j].depth = 0

\* position j resolves, inside the invocation entered at position i, a name
\* the body of the function declares with var (or as a nested function)
LocalLookup(i, j) ==
    /\ log[i].e = "enter"
    /\ log[j].e = "lookup"
    /\ j > i
    /\ log[j].scope = log[i].link
    /\ \E x \in DOMAIN log[i].ids : log[i].ids[x] = log[j].id

\* the binding id of the activation was removed between positions i and j
DeletedBetween(i, j, act, id) ==
    \E m \in (i + 1)..(j - 1) :
        log[m].e = "delete" /\ log[m].base = act /\ log[m].id = id /\ log[m].removed

RECURSIVE ChainActs(_)
ChainActs(l) ==
    IF l = 0 THEN {} ELSE {links[l].activation} \cup ChainActs(links[l].prev)

\* C8: an invocation of a function object runs in a new link whose prev is
\* the link that was current when the function object was created, whatever
\* the scope of the caller; names resolve through that chain only; function
\* objects created by different invocations capture different activations.
C8_LexicalClosure ==
    /\ \A j \in At("enter") :
          \E i \in At("function") :
              /\ i < j
              /\ log[i].callee = log[j].callee
              /\ links[log[j].link].prev = log[i].scope
              /\ links[log[i].scope].activation = log[i].base
    /\ \A j \in At("enter") : \A k \in At("lookup") :
          log[k].scope = log[j].link => log[k].base \in ChainActs(log[j].link)
    /\ \A i \in At("function") : \A k \in At("function") :
          log[i].scope # log[k].scope => log[i].base # log[k].base

\* an inner function was called after its outer invocation had returned, by
\* a caller whose own activation binds the same name; the name resolved to
\* the activation of the outer invocation; a second outer invocation made
\* a second inner function
C8_Witness ==
    \E j \in At("enter") : \E k \in At("lookup") :
        /\ log[k].scope = log[j].link
        /\ log[j].old # log[j].prev
        /\ log[j].prev # 1
        /\ log[k].base = links[log[j].prev].activation
        /\ log[k].id \in DOMAIN objs[links[log[j].old].activation].props
        /\ \E m \in At("leave") : m < j /\ log[m].link = log[j].prev
        /\ \E f \in At("function") : \E g \in At("function") :
              log[f].id = log[g].id /\ log[f].scope # log[g].scope

\* the this value section 4.6 prescribes for the call logged at position i
ExpectedThis(i) ==
    IF log[i].member.t = "reference" /\ log[i].base_class # "Activation"
    THEN Obj(log[i].member.v)
    ELSE Null

\* C9: the this value of every call is the base of the callee reference when
\* that base is not an Activation object, and null otherwise; the thunk
\* receives that value.
C9_ThisValue ==
    \A i \in At("call") :
        /\ log[i].this = ExpectedThis(i)
        /\ log[i].member.t = "reference"
              => log[i].base_class = objs[log[i].member.v].class_name
        /\ (i + 1 \in DOMAIN log /\ log[i + 1].e = "enter")
              => log[i + 1].this = ExpectedThis(i)

\* a method call passed its object, a call by global name passed the global
\* object and a call of a local function passed null
C9_Witness ==
    /\ \E i \in At("call") :
          log[i].base_class = "Object" /\ log[i].this = Obj(log[i].member.v)
          /\ log[i + 1].e = "enter" /\ log[i + 1].this = log[i].this
    /\ \E i \in At("call") : log[i].base_class = "Global" /\ log[i].this = Obj(global_)
    /\ \E i \in At("call") : log[i].base_class = "Activation" /\ log[i].this = Null

\* the positions of the new-expression and of the body entry that belong to
\* the construct event at position c
NewOf(c) ==
    {n \in At("new") : n < c /\ log[n].callee = log[c].callee
                       /\ \A m \in At("new") : m < c => m <= n}

\* C10: new F(args) makes a fresh object whose prototype is F.prototype when
\* that is an object and the default object prototype otherwise, runs the
\* body once with this = the fresh object and the given arguments, and
\* yields the body's result when it is an object, else the fresh object.
C10_Construct ==
    \A c \in At("construct") :
        /\ objs[log[c].fresh].prototype =
              (IF log[c].pval.t = "object" THEN log[c].pval.v ELSE object_prototype_)
        /\ objs[log[c].fresh].class_name = objs[log[c].callee].call.def.id
        /\ \A n \in NewOf(c) :
              /\ log[c].fresh > log[n].heap
              /\ log[c].args = log[n].args
              /\ Cardinality({x \in At("enter") :
                     n < x /\ x < c /\ log[x].this = Obj(log[c].fresh)}) = 1
              /\ \A x \in At("enter") :
                     (n < x /\ x < c /\ log[x].this = Obj(log[c].fresh))
                        => log[x].args = log[n].args /\ log[x].callee = log[c].callee
        /\ log[c].result = (IF log[c].ret.t = "object" THEN log[c].ret ELSE Obj(log[c].fresh))
        /\ (c + 1 \in DOMAIN log /\ log[c + 1].e = "returned") => ~log[c + 1].err

\* a constructor returned another object, which new yielded; a constructor
\* whose prototype property is not an object made an object with the
\* default prototype
C10_Witness ==
    \E c \in At("construct") :
        /\ log[c].ret.t = "object"
        /\ log[c].result = log[c].ret
        /\ log[c].result # Obj(log[c].fresh)
        /\ NewOf(c) # {}
        /\ last.op = "statement" /\ ~last.err /\ last.v.result = log[c].result

\* C11: every executed function definition gives the new function object a
\* prototype property holding a fresh object: one allocated by the
\* definition, different from the built-in function prototype and from the
\* prototype given to any other function object.
C11_FreshPrototype ==
    \A i \in At("function") :
        /\ log[i].proto.t = "object"
        /\ log[i].proto.v > log[i].heap
        /\ log[i].proto.v # function_prototype_
        /\ \A j \in At("function") :
              log[j].callee # log[i].callee => log[j].proto # log[i].proto

\* the left operand's value decides the result of the logical operator
Decides(op, a) == IF op = "&&" THEN ~to_boolean(a) ELSE to_boolean(a)

\* C12: for a && b and a || b, when to_boolean of a's value decides the
\* result nothing of b is evaluated (no step lies between a's value and the
\* result) and the result is a's value itself; otherwise b is evaluated and
\* the result is b's value.
C12_ShortCircuit ==
    \A k \in At("logical") :
        LET i == log[k].left_at IN
        /\ log[i].e = "logical_left"
        /\ log[i].op = log[k].op
        /\ IF Decides(log[k].op, log[i].value)
           THEN k = i + 1 /\ log[k].result = log[i].value
           ELSE /\ k > i + 2
                /\ log[k - 1].e = "logical_right"
                /\ log[k].result = log[k - 1].value
                /\ log[k - 2].e = "assign" => log[k].result = log[k - 2].value

\* an && was decided by a falsy number and an || by a truthy string, each
\* yielding the left value itself, and the assignment on the right of each
\* did not happen; an && and an || went on to assignments on the right
C12_Witness ==
    /\ \E k \in At("logical") :
          log[k].op = "&&" /\ log[k].result = Num(0) /\ log[k - 1].e = "logical_left"
    /\ \E k \in At("logical") :
          log[k].op = "||" /\ log[k].result = Str("a") /\ log[k - 1].e = "logical_left"
    /\ \E k \in At("logical") : log[k].op = "&&" /\ log[k - 2].e = "assign"
    /\ \E k \in At("logical") : log[k].op = "||" /\ log[k - 2].e = "assign"
    /\ \A k \in At("assign") : log[k].value \in {Num(2), Num(3), Num(6)}

\* C13: in every simple or compound assignment the target is evaluated to
\* its reference before the evaluation of the right-hand side begins, and
\* the write goes to the base and the property name of that reference.
C13_TargetFirst ==
    \A a \in At("assign") :
        LET i == log[a].target_at IN
        /\ i \in DOMAIN log
        /\ log[i].e = "assign_target"
        /\ log[i].target = log[a].target
        /\ i < log[a].rhs_from
        /\ log[a - 1].e = "put_value"
        /\ log[a - 1].base = log[i].target.v
        /\ log[a - 1].id = log[i].target.n
        /\ log[a - 1].accepted

\* the right-hand side of o.x = ... assigned another object to o, and the
\* write went to the object o named before; the right-hand side of k = ...
\* deleted the local k, and the write went to the activation all the same
C13_Witness ==
    /\ \E a \in At("assign") : \E m \in At("assign") :
          /\ log[a].target.n = "x"
          /\ log[a].target_at < m /\ m < a
          /\ log[m].target.n = "o"
          /\ log[m].value # Obj(log[a].target.v)
          /\ "x" \in DOMAIN objs[log[a].target.v].props
    /\ \E a \in At("assign") : \E m \in At("delete") :
          /\ log[a].target_at < m /\ m < a
          /\ log[m].removed
          /\ log[m].base = log[a].target.v /\ log[m].id = log[a].target.n
          /\ objs[log[a].target.v].class_name = "Activation"
          /\ "k" \notin DOMAIN objs[global_].props

\* the events of the loop statements
LoopKinds == {"while", "for"}

\* C14: a while or for statement never completes with break or continue; after
\* a body that completed with break the loop ends normally, after one that
\* completed with return it ends with that very completion, and in both cases
\* nothing more of the loop runs; after any other body the loop goes on with
\* the iteration expression of a for that has one, and with the condition
\* otherwise, and the iteration expression is followed by the condition
C14_LoopCompletions ==
    /\ \A i \in At("statement_executed") :
           log[i].k \in LoopKinds => log[i].completion.type \in {"normal", "return"}
    /\ \A i \in At("loop_end") : log[i].c.type \in {"normal", "return"}
    /\ \A i \in At("loop_body") :
           /\ i < Len(log)
           /\ log[i + 1].e \in {"loop_end", "loop_iter", "loop_cond"}
           /\ log[i + 1].s = log[i].s
           /\ log[i + 1].scope = log[i].scope
           /\ log[i].c.type = "break" =>
                  /\ log[i + 1].e = "loop_end"
                  /\ log[i + 1].c = completion("normal", Undef)
           /\ log[i].c.type = "return" =>
                  /\ log[i + 1].e = "loop_end"
                  /\ log[i + 1].c = log[i].c
           /\ log[i].c.type \in {"normal", "continue"} =>
                  log[i + 1].e = (IF log[i].s.k = "for" /\ log[i].s.iter.k # "none"
                                  THEN "loop_iter" ELSE "loop_cond")
    /\ \A i \in At("loop_iter") :
           \A j \in (i + 1)..Len(log) :
               (/\ log[j].e \in {"loop_end", "loop_body", "loop_cond", "loop_iter"}
                /\ log[j].s = log[i].s
                /\ \A m \in (i + 1)..(j - 1) : log[m].e # "host")
               => \E m \in (i + 1)..j : log[m].e = "loop_cond" /\ log[m].s = log[i].s

\* a while loop absorbed a break, a loop inside a function handed the return
\* of its body to the call, and a for loop ran its iteration expression after
\* a continue
C14_Witness ==
    /\ \E i \in At("loop_body") : log[i].s.k = "while" /\ log[i].c.type = "break"
    /\ \E i \in At("loop_body") : \E j \in At("leave") :
           /\ log[i].c.type = "return"
           /\ j > i
           /\ log[j].result = log[i].c.result
           /\ log[j].result.t = "number"
    /\ \E i \in At("loop_body") :
           /\ log[i].s.k = "for"
           /\ log[i].c.type = "continue"
           /\ log[i + 1].e = "loop_iter"

\* C15: a break or continue completion that no loop absorbed is reported as
\* an error: no call of a script function ends with its body completed by
\* break or continue and hands a value to the caller, and no top-level
\* statement evaluation returns a break or continue completion to the host
C15_EscapeReported ==
    /\ \A i \in At("leave") : log[i].how \notin {"break", "continue"}
    /\ (last.op = "statement" /\ ~last.err) => last.v.type \notin {"break", "continue"}

\* the delete expressions whose operand is a name that no link of the scope
\* chain binds
DeleteUnbound ==
    {i \in At("delete") : i > 1 /\ log[i - 1].e = "lookup"
                          /\ log[i - 1].id = log[i].id /\ ~log[i - 1].bound}

\* C16: delete of a name that is bound in no link of the scope chain evaluates
\* to true and changes no property of any object
C16_DeleteUnbound ==
    \A i \in DeleteUnbound : log[i].result = Bool(TRUE) /\ ~log[i].changed

\* the value a read at g of property id of object o must give when the
\* property held v at i: the value of the last write in between, else v
Held(i, g, o, id, v) ==
    LET ws == {w \in (i + 1)..(g - 1) : Touches(w, o, id)}
    IN IF ws = {} THEN v
       ELSE LET w == CHOOSE x \in ws : \A y \in ws : y <= x
            IN IF log[w].e \in {"put_value", "var_put"} THEN log[w].value ELSE log[g].result

\* C17: in every call of a script function with n arguments the arguments
\* object has length n, property "k" equal to the k-th argument and callee
\* equal to the function called; a read of arguments[k] or of a bound
\* parameter gives what was last written to that very property, so writing
\* one never changes the other
C17_ArgumentsObject ==
    \A i \in At("enter") :
        LET n == Len(log[i].args)
            a == log[i].array
        IN /\ DOMAIN a = {"callee", "length"} \cup {index_string(k) : k \in 0..(n - 1)}
           /\ a["length"] = Num(n)
           /\ a["callee"] = Obj(log[i].callee)
           /\ \A k \in 1..n : a[index_string(k - 1)] = log[i].args[k]
           /\ \A g \in At("get_value") : \A k \in 1..n :
                  g > i =>
                  /\ (log[g].base = log[i].arguments /\ log[g].id = index_string(k - 1))
                         => log[g].result = Held(i, g, log[i].arguments, log[g].id, log[i].args[k])
                  /\ (log[g].base = log[i].act /\ k <= Len(log[i].params)
                         /\ log[g].id = log[i].params[k])
                         => log[g].result = Held(i, g, log[i].act, log[g].id, log[i].args[k])

\* a call with fewer and one with more arguments than parameters happened;
\* arguments[0] was read after the first parameter was assigned, and the
\* first parameter was read after arguments[0] was assigned
C17_Witness ==
    /\ \E i \in At("enter") : Len(log[i].args) < Len(log[i].params) /\ Len(log[i].args) > 0
    /\ \E i \in At("enter") : Len(log[i].args) > Len(log[i].params)
    /\ \E i \in At("enter") : \E w \in At("put_value") : \E g \in At("get_value") :
           /\ i < w /\ w < g
           /\ log[w].base = log[i].act /\ log[w].id = log[i].params[1]
           /\ log[g].base = log[i].arguments /\ log[g].id = "0"
           /\ log[g].result = log[i].args[1]
           /\ log[w].value # log[i].args[1]
    /\ \E i \in At("enter") : \E w \in At("put_value") : \E g \in At("get_value") :
           /\ i < w /\ w < g
           /\ log[w].base = log[i].arguments /\ log[w].id = "0"
           /\ log[g].base = log[i].act /\ log[g].id = log[i].params[1]
           /\ log[g].result = log[i].args[1]
           /\ log[w].value # log[i].args[1]

\* C18: when the property targeted by an assignment, a compound assignment or
\* a prefix or postfix ++ / -- refuses the write, the expression raises a
\* runtime error right after the refused write instead of producing a value,
\* and the property keeps the value it had
C18_RefusedWriteFails ==
    \A i \in At("put_value") :
        ~log[i].accepted =>
            /\ i < Len(log)
            /\ log[i + 1].e = "throw"
            /\ log[i].after = log[i].before

\* a write of the read-only length of a function and a write of this in an
\* activation were refused, and the last evaluation ended with an error
C18_Witness ==
    /\ \E i \in At("put_value") :
           ~log[i].accepted /\ log[i].id = "length" /\ log[i].class = "Function"
           /\ log[i].value # log[i].before
    /\ \E i \in At("put_value") :
           ~log[i].accepted /\ log[i].id = "this" /\ log[i].class = "Activation"
    /\ last.err

\* an equality operator was applied to l and r
AppliedEq == last.op \in {"==", "!="}

\* the answer of the operator applied, as l == r
SaidEqual == IF last.op = "==" THEN last.v = Bool(TRUE) ELSE last.v = Bool(FALSE)

Rank(a) ==
    CASE a = NegInfinityValue -> 0 - (MaxNum + 1)
      [] a = InfinityValue -> MaxNum + 1
      [] a = NegZero -> 0
      [] OTHER -> a.v

\* what the relational operator op must give on the doubles l and r, neither
\* of them NaN
Ordered(op, l, r) ==
    CASE op = "<" -> Rank(l) < Rank(r)
      [] op = "<=" -> Rank(l) <= Rank(r)
      [] op = ">" -> Rank(l) > Rank(r)
      [] OTHER -> Rank(l) >= Rank(r)

\* C20: on numbers, every relational operator gives false when an operand is
\* NaN, and otherwise what the order of the extended reals with -0 equal to
\* +0 says
C20_Relational ==
    (is_relational(last.op) /\ last.l.t = "number" /\ last.r.t = "number") =>
        /\ ~last.err
        /\ IF last.l = NaNValue \/ last.r = NaNValue THEN last.v = Bool(FALSE)
           ELSE last.v = Bool(Ordered(last.op, last.l, last.r))

\* -0 <= +0 was evaluated and gave true
C20_Witness ==
    /\ last.op = "<="
    /\ last.l = NegZero
    /\ last.r = Num(0)
    /\ last.v = Bool(TRUE)

\* the number a step with operator op makes of the value read
Stepped(op, read) == NumAdd(to_number(read), Num(IF op = "++" THEN 1 ELSE -1))

\* C21: a postfix ++ or -- yields the number its operand held and a prefix
\* one the stepped number; both read the operand once and then write the
\* stepped number to the operand's property, once
C21_StepValue ==
    \A i \in At("step") :
        /\ i > 2
        /\ log[i - 2].e = "get_value"
        /\ log[i - 2].base = log[i].base /\ log[i - 2].id = log[i].id
        /\ log[i - 2].result = log[i].read
        /\ log[i - 1].e = "put_value"
        /\ log[i - 1].base = log[i].base /\ log[i - 1].id = log[i].id
        /\ log[i - 1].value = Stepped(log[i].op, log[i].read)
        /\ log[i - 1].after = Stepped(log[i].op, log[i].read)
        /\ log[i].result = (IF log[i].fix = "postfix" THEN to_number(log[i].read)
                            ELSE Stepped(log[i].op, log[i].read))

\* a postfix ++ on a string holding a numeral, a postfix and a prefix step on
\* a number happened
C21_Witness ==
    /\ \E i \in At("step") : log[i].fix = "postfix" /\ log[i].op = "++"
                             /\ log[i].read = Str("3") /\ log[i].result = Num(3)
    /\ \E i \in At("step") : log[i].fix = "prefix" /\ log[i].op = "--"
                             /\ log[i].read.t = "number"
                             /\ log[i].result = NumAdd(log[i].read, Num(-1))

\* the start of the host's evaluation that event t belongs to
HostOf(t) == CHOOSE h \in At("host") : h < t /\ \A g \in At("host") : g < t => g <= h

\* the call and new expressions that were entered and not yet left when
\* event t happened
ActiveCalls(t) ==
    {c \in At("call") \cup At("new") :
        /\ HostOf(t) < c
        /\ c < t
        /\ \A r \in At("returned") : (c < r /\ r < t) => log[r].depth # log[c].depth}

\* C22: the stack trace of an error raised by a call or new expression is the
\* extent of that expression followed by the call sites of the calls active at
\* that moment, all of them and nothing else
C22_StackTrace ==
    \A t \in At("throw") :
        (t > 1 /\ log[t - 1].e = "failing") =>
            /\ Len(log[t].trace) = 1 + Cardinality(ActiveCalls(t - 1))
            /\ log[t].trace[1] = log[t - 1].extend
            /\ {log[t].trace[k] : k \in 2..Len(log[t].trace)}
                   = {log[c].extend : c \in ActiveCalls(t - 1)}

\* C23: with an observer, every statement evaluation that produced a
\* completion is reported once, right when it has finished and with its
\* completion, so a statement evaluated inside another is reported before the
\* one containing it; nothing else is reported, in particular no statement
\* that an error aborted; without an observer nothing is reported
C23_ObserverReports ==
    /\ \A i \in At("completed") :
           observer => /\ i < Len(log)
                       /\ log[i + 1].e = "statement_executed"
                       /\ log[i + 1].k = log[i].k
                       /\ log[i + 1].completion = log[i].completion
    /\ \A j \in At("statement_executed") :
           /\ observer
           /\ j > 1
           /\ log[j - 1].e = "completed"
    /\ \A i \in At("completed") : \A j \in At("completed") :
           (i < j /\ log[j].from < i) => log[j].from <= log[i].from

\* with an observer, a statement of a function body and a statement nested in
\* source text run by the eval built-in were reported, each before the
\* statement containing it, and a statement aborted by an error was not
C23_Witness ==
    /\ observer
    /\ \E i \in At("statement_executed") : \E j \in At("statement_executed") :
           /\ i < j
           /\ log[i - 1].depth > 0
           /\ log[j - 1].from <= log[i - 1].from
           /\ log[j - 1].depth = 0
    /\ \E i \in At("statement_executed") : \E j \in At("statement_executed") :
           /\ i < j
           /\ log[j - 1].k = "if"
           /\ log[j - 1].s = parse("if (1) q = 2").l[1]
           /\ log[j - 1].from <= log[i - 1].from
    /\ \E t \in At("throw") :
           /\ log[HostOf(t)].op = "statement"
           /\ \A j \in At("statement_executed") : j > t => HostOf(j) > t

\* the start of the argument list of the call expression that event t, a
\* failure or a call, belongs to
ArgumentsOf(t) ==
    CHOOSE a \in At("arguments") :
        /\ a < t
        /\ log[a].extend = log[t].extend
        /\ log[a].depth = log[t].depth
        /\ \A b \in At("arguments") :
               (b < t /\ log[b].extend = log[t].extend /\ log[b].depth = log[t].depth) => b <= a

\* the events that change a property or run a function
Effects == {"put_value", "var_put", "delete", "function", "call", "new"}

\* the arguments evaluated between the events a and c
ArgumentsIn(a, c) == {x \in (a + 1)..(c - 1) : log[x].e = "argument"}

\* C24: when the callee of a call expression is not callable the error is
\* raised with no effect of the argument expressions having happened; when
\* it is callable the arguments are evaluated left to right, each reduced to
\* a value before the next one starts
C24_CalleeCheckedFirst ==
    /\ \A t \in At("failing") :
           log[t].what = "call" =>
               \A x \in (ArgumentsOf(t) + 1)..(t - 1) : log[x].e \notin Effects
    /\ \A c \in At("call") :
           LET a == ArgumentsOf(c)
           IN (\A b \in At("arguments") : ~(a < b /\ b < c)) =>
                  /\ Cardinality(ArgumentsIn(a, c)) = Len(log[c].args)
                  /\ \A x \in ArgumentsIn(a, c) :
                         /\ log[x].value.t # "reference"
                         /\ log[x].value
                                = log[c].args[Cardinality({y \in ArgumentsIn(a, c) : y <= x})]

RECURSIVE FunctionIds(_)
\* the names of the function definitions of a statement, nested functions
\* apart
FunctionIds(s) ==
    CASE s.k = "block" -> UNION {FunctionIds(s.l[i]) : i \in 1..Len(s.l)}
      [] s.k = "if" -> FunctionIds(s.if_s) \cup FunctionIds(s.else_s)
      [] s.k = "while" -> FunctionIds(s.s)
      [] s.k = "for" -> FunctionIds(s.init) \cup FunctionIds(s.s)
      [] s.k = "function" -> {s.id}
      [] OTHER -> {}

\* the activation of the innermost call that is active at event i, the
\* global object when there is none
InnermostActivation(i) ==
    LET E == {e \in At("enter") :
                /\ HostOf(i) < e
                /\ e < i
                /\ \A l \in At("leave") : (e < l /\ l < i) => log[l].link # log[e].link}
    IN IF E = {} THEN global_
       ELSE log[CHOOSE e \in E : \A f \in E : f <= e].act

\* reads at g of the name id of activation act, hoisted at event i (0 for the
\* construction), give undefined until something is stored under the name,
\* and the function object once its definition was the last to store
FunctionNameHeld(i, g, act, id) ==
    (i < g /\ log[g].base = act /\ log[g].id = id) =>
        LET ws == {w \in (i + 1)..(g - 1) : Touches(w, act, id)}
        IN IF ws = {} THEN log[g].result = Undef
           ELSE LET w == CHOOSE x \in ws : \A y \in ws : y <= x
                IN log[w].e = "function" => log[g].result = Obj(log[w].callee)

\* C25: the name of a function definition holds undefined from hoisting
\* until the definition is executed (or something else is stored), a call of
\* it in between fails, and each execution of the definition makes a new
\* function object and binds it in the activation that is innermost then
C25_BoundWhenExecuted ==
    /\ \A f \in At("function") :
           /\ log[f].callee > log[f].heap
           /\ \A g \in At("function") : g # f => log[g].callee # log[f].callee
           /\ log[f].base = InnermostActivation(f)
    /\ \A g \in At("get_value") :
           /\ \A id \in FunctionIds(Block(Stmts)) : FunctionNameHeld(0, g, global_, id)
           /\ \A i \in At("enter") :
                  \A id \in FunctionIds(objs[log[i].callee].call.def.block) :
                      FunctionNameHeld(i, g, log[i].act, id)
    /\ \A c \in At("call") :
           (/\ log[c].member.t = "reference"
            /\ log[c].member.v = global_
            /\ log[c].member.n \in FunctionIds(Block(Stmts)))
           => \E w \in 1..(c - 1) : Touches(w, global_, log[c].member.n)

\* a call of a function whose definition had not been executed failed, the
\* definition was executed later and the same call succeeded; a definition nested
\* in a function was bound in that call's activation
C25_Witness ==
    /\ \E t \in At("failing") : \E f \in At("function") : \E c \in At("call") :
           /\ t < f /\ f < c
           /\ log[t].what = "call"
           /\ log[t].extend = log[c].extend
           /\ log[f].base = global_
           /\ log[c].callee = log[f].callee
    /\ \E f \in At("function") : log[f].base # global_

\* C26: on entry to a call, no hoisted name of the body is already a property
\* of the new activation when it is bound to undefined
C26_EntryAssertion == \A i \in At("enter") : log[i].bad = <<>>

\* C27: whenever a variable statement is executed, the name of each of its
\* declarators is a property of the innermost activation
C27_VariableAssertion ==
    \A i \in At("assert") : log[i].where # "variable_statement"

\* the value of the global object's property k in the heap h
GlobalValue(h, k) == h[global_].props[k].value

\* C28: once the interpreter is constructed, every property the global object
\* had before the program's names were hoisted still has the value it had
C28_HoistKeepsGlobals ==
    steps = 0 =>
        \A k \in DOMAIN InstalledHeap[global_].props :
            GlobalValue(objs, k) = GlobalValue(InstalledHeap, k)

\* the objects made by a construct thunk for a new expression
Constructed == {log[i].fresh : i \in At("construct")}

\* C29: no object made for a new expression carries the class tag Activation,
\* and a call through a property of such an object receives it as this
C29_ActivationTag ==
    /\ \A o \in Constructed : objs[o].class_name # "Activation"
    /\ \A c \in At("call") :
          (log[c].member.t = "reference" /\ log[c].member.v \in Constructed)
              => log[c].this = Obj(log[c].member.v)

\* the compound assignments
Compound == {a \in At("assign") : log[a].op # "="}

\* the accepted writes to the target of the assignment a made while its
\* right-hand side was evaluated
WritesDuringRhs(a) ==
    {w \in At("put_value") :
        /\ log[a].target_at < w /\ w < a - 1
        /\ log[w].accepted
        /\ log[w].base = log[a].target.v /\ log[w].id = log[a].target.n}

\* the greatest element of a non-empty set of positions
Latest(S) == CHOOSE w \in S : \A x \in S : x <= w

\* C30: a compound assignment reads its target after its right-hand side is
\* evaluated: the read is the step before the write, a write to the target
\* made by the right-hand side is the value read, and the value stored is the
\* operator applied to the value read and the value of the right-hand side
C30_TargetReadAfterRhs ==
    \A a \in Compound :
        /\ log[a - 2].e = "get_value"
        /\ log[a - 2].base = log[a].target.v /\ log[a - 2].id = log[a].target.n
        /\ log[a - 2].result = log[a].lval
        /\ WritesDuringRhs(a) # {} => log[a].lval = log[Latest(WritesDuringRhs(a))].after
        /\ log[a].value = do_binary_op(without_assignment(log[a].op), log[a].lval,
                                        log[a].rval, objs)

\* x = 1; x += (x = 5) stored 10
C30_Witness ==
    \E a \in Compound :
        /\ log[a].op = "+="
        /\ WritesDuringRhs(a) # {}
        /\ log[Latest(WritesDuringRhs(a))].before = Num(1)
        /\ log[a].rval = Num(5)
        /\ log[a].value = Num(10)
        /\ get(objs, log[a].target.v, log[a].target.n) = Num(10)

====
